---- MODULE Spec2Model ----
(***************************************************************************)
(* The instrument session of the Fluke 5440B asyncio driver                *)
(* (fluke5440b_async/fluke_5440b.py) as a state machine.                   *)
(*                                                                         *)
(* Every coroutine of the driver is an operator that maps a frame          *)
(* (function, pending await, locals) and the value its pending await       *)
(* produced to the next thing the coroutine does: wait on another          *)
(* primitive, call a coroutine, return or raise.  The actions are the      *)
(* completions of the awaited primitives (transport write/read/serial      *)
(* poll/wait, asyncio.sleep, lock acquire), so other coroutines of the     *)
(* event loop interleave exactly at the awaits of the source.              *)
(***************************************************************************)
EXTENDS Integers, Sequences, FiniteSets, TLC

VARIABLES
    lock,       \* self.__lock: 0 is None, n > 0 the n-th asyncio.Lock created
    holder,     \* for every Lock object, the coroutine holding it
    connected,  \* the transport link is up
    dev,        \* the calibrator: state, pending error, SRQ mask, output buffer
    co,         \* for every asyncio task, its call stack and what it observed
    faults      \* failures the environment has injected so far

vars == <<lock, holder, connected, dev, co, faults>>

----------------------------------------------------------------------------
(* Bounds of the exploration *)

MaxCalls == 2       \* public calls per asyncio task
MaxShared == 3      \* public calls of all tasks that share one driver object
MaxFaults == 2        \* failures injected by the environment in one behaviour
MaxSettings == 2      \* calls of one task after its connect()
MaxAfter == 2         \* calls of one task after its disconnect()
MaxOut == 1         \* replies the device output buffer holds
LenSlack == 1       \* command lengths explored around the buffer limit

Tasks == {"A", "B"}
NoTask == "-"
\* every connect() creates a Lock
Locks == 1..(MaxCalls * Cardinality(Tasks))

----------------------------------------------------------------------------
(* enums.py, flags.py *)

ErrorCode ==
    {0, 144, 145, 146, 147, 152, 153, 154, 155, 156, 157, 158, 160,
     168, 169, 170, 171, 172, 173, 175}

SelfTestErrorCode ==
    {0, 8, 9, 16, 17, 18, 24, 25, 26, 27, 28, 29, 30, 32, 33, 40, 41, 42, 43,
     48, 49, 50, 51, 56, 57, 64, 72, 73, 74, 75, 80, 81, 82, 83, 87, 88, 89,
     90, 91, 92, 93, 94, 95, 96, 97, 104, 109, 110, 112, 113, 114, 115, 116,
     120, 121, 122, 123, 128, 129, 130, 131, 132, 136, 137, 138, 144, 145,
     146, 147, 152, 153, 154, 155, 156, 157, 158, 160, 168, 169, 170, 171,
     172, 173, 174, 175}

DeviceState ==
    {0, 16, 32, 33, 34, 35, 36, 37, 38, 39, 48, 49, 50, 51, 52, 53, 64, 65,
     66, 67, 68, 69, 80, 81, 82, 83, 84, 85, 96, 112, 113, 114, 128, 129,
     130, 208, 224, 240}

IDLE == 0
PRINTING == 208
BOOST_INTERFACE_CURRENT_TRIP == 147
CALIBRATING_ADC == 16
SELF_TEST_MAIN_CPU == 112
SELF_TEST_LOW_VOLTAGE == 128
SELF_TEST_HIGH_VOLTAGE == 129
WRITING_TO_NVRAM == 224
RESETTING == 240

GPIB_HANDSHAKE_ERROR == 152
UNKNOWN_COMMAND == 155
OUTPUT_OUTSIDE_LIMITS == 169
LIMIT_OUT_OF_RANGE == 170
INVALID_SENSE_MODE == 172
INVALID_GUARD_MODE == 173
CAL_SWITCH_LOCKED == 174
MAIN_CONTROL_FAULT_CHECK_MAIN_MEMORY == 17

DOING_STATE_CHANGE == 4
MSG_RDY == 8
ERROR_CONDITION == 32

SRQ_NONE == 0

LF_EOI == 2
COMMA == 0

BAUD_RATES_AVAILABLE ==
    \* in units of 0.1 bit/s, so that 134.5 is an integer
    <<500, 750, 1100, 1345, 1500, 2000, 3000, 6000, 12000, 18000, 24000,
      48000, 96000>>

BufferLimit == 127

\* spoll & flag, for a single-bit flag
HasFlag(spoll, flag) == (spoll \div flag) % 2 = 1

----------------------------------------------------------------------------
(* Text of the commands *)

Digit(d) == CASE d = 0 -> "0" [] d = 1 -> "1" [] d = 2 -> "2" [] d = 3 -> "3"
              [] d = 4 -> "4" [] d = 5 -> "5" [] d = 6 -> "6" [] d = 7 -> "7"
              [] d = 8 -> "8" [] OTHER -> "9"

RECURSIVE FormatD(_)
\* f"{n:d}" for n >= 0
FormatD(n) == IF n < 10 THEN Digit(n) ELSE FormatD(n \div 10) \o Digit(n % 10)

RECURSIVE GcalCommand(_, _)
\* ",".join(["GCAL " + str(i) for i in range(first, last + 1)])
GcalCommand(first, last) ==
    IF first = last THEN "GCAL " \o FormatD(first)
    ELSE GcalCommand(first, last - 1) \o "," \o "GCAL " \o FormatD(last)

RECURSIVE Filler(_)
\* a command text of n characters
Filler(n) ==
    IF n = 0 THEN ""
    ELSE IF n % 2 = 0 THEN LET half == Filler(n \div 2) IN half \o half
    ELSE "X" \o Filler(n - 1)

RECURSIVE IndexOf_OneBased(_, _, _)
\* the position counted from 1
IndexOf_OneBased(seq, value, i) ==
    IF i > Len(seq) THEN -1
    ELSE IF seq[i] = value THEN i ELSE IndexOf_OneBased(seq, value, i + 1)

RECURSIVE IndexOf(_, _, _)
\* tuple.index(value), 0-based; -1 when value is not in the tuple
IndexOf(seq, value, i) ==
    IF i > Len(seq) THEN -1
    ELSE IF seq[i] = value THEN i - 1 ELSE IndexOf(seq, value, i + 1)

SeqRange(seq) == {seq[i] : i \in 1..Len(seq)}

----------------------------------------------------------------------------
(* Decimal numbers and their text *)

\* a decimal number: its sign, its integral part and its fractional part in
\* units of 10^-8; zero has no sign
Dec(neg, int, frac) == [neg |-> neg, int |-> int, frac |-> frac]
Whole(n) == IF n < 0 THEN Dec(TRUE, -n, 0) ELSE Dec(FALSE, n, 0)
\* value2 is None
NoValue == Dec(FALSE, -1, 0)

IsZero(x) == x.int = 0 /\ x.frac = 0
\* abs(x) <= abs(y)
MagLe(x, y) == x.int < y.int \/ (x.int = y.int /\ x.frac <= y.frac)
\* x <= y
Le(x, y) ==
    CASE x.neg /\ ~y.neg -> TRUE
      [] ~x.neg /\ y.neg -> FALSE
      [] x.neg /\ y.neg -> MagLe(y, x)
      [] OTHER -> MagLe(x, y)
\* x > y
Gt(x, y) == ~Le(x, y)
\* x * y <= 0
ProductNotPositive(x, y) == IsZero(x) \/ IsZero(y) \/ x.neg # y.neg

RECURSIVE Digits(_)
\* the decimal digits of n >= 0, one character each
Digits(n) ==
    IF n < 10 THEN <<Digit(n)>> ELSE Append(Digits(n \div 10), Digit(n % 10))

RECURSIVE Power10(_)
Power10(n) == IF n = 0 THEN 1 ELSE 10 * Power10(n - 1)

\* f"{value:.8f}", as a sequence of characters
FixedPoint(x) ==
    (IF x.neg THEN <<"-">> ELSE <<>>) \o Digits(x.int) \o <<".">>
        \o [i \in 1..8 |-> Digit((x.frac \div Power10(8 - i)) % 10)]

\* f"{result:.9s}": the first nine characters
Precision9(text) == SubSeq(text, 1, IF Len(text) < 9 THEN Len(text) ELSE 9)

limit_numeric(value) ==
    IF value.int >= 1 THEN Precision9(FixedPoint(value)) ELSE FixedPoint(value)

RECURSIVE Join(_)
\* "".join(text)
Join(text) == IF text = <<>> THEN "" ELSE Head(text) \o Join(Tail(text))

DigitValue(c) == CHOOSE d \in 0..9 : Digit(d) = c

RECURSIVE Number(_, _)
\* the number that the digits of text spell, after the digits of n
Number(text, n) ==
    IF text = <<>> THEN n ELSE Number(Tail(text), 10 * n + DigitValue(Head(text)))

\* Decimal(text) for a text in fixed-point notation
Decimal(text) ==
    LET neg == text[1] = "-"
        body == IF neg THEN Tail(text) ELSE text
        dot == CHOOSE i \in 1..Len(body) : body[i] = "."
        int == Number(SubSeq(body, 1, dot - 1), 0)
        places == Len(body) - dot
        frac == Number(SubSeq(body, dot + 1, Len(body)), 0) * Power10(8 - places)
    IN Dec(neg /\ (int # 0 \/ frac # 0), int, frac)

----------------------------------------------------------------------------
(* Exceptions *)

NoExc == [type |-> "", code |-> -1, msg |-> "", ctx |-> "", ctxcode |-> -1]
Exc(type, code, msg) ==
    [type |-> type, code |-> code, msg |-> msg, ctx |-> "", ctxcode |-> -1]

\* an exception raised while `pending` was being handled: pending becomes
\* its __context__ and is no longer what the caller sees
During(e, pending) ==
    IF pending = NoExc THEN e
    ELSE [e EXCEPT !.ctx = pending.type, !.ctxcode = pending.code]

----------------------------------------------------------------------------
(* Frames and what a coroutine does next *)

\* a frame of the call stack: the function, the label of its pending await,
\* the primitive awaited there ("" while a callee runs) and the locals
Frame(fn) ==
    [fn |-> fn, pc |-> "entry", aw |-> "", cmd |-> "", enc |-> "str",
     te |-> FALSE, v |-> 0, pend |-> NoExc, lk |-> 0]

WithCmd(fn, cmd, te) == [Frame(fn) EXCEPT !.cmd = cmd, !.te = te]
WithArg(fn, v) == [Frame(fn) EXCEPT !.v = v]

Await(f) == [k |-> "await", f |-> f]
Call(f, g) == [k |-> "call", f |-> f, g |-> g]
Return(v) == [k |-> "return", v |-> v]
Raise(e) == [k |-> "raise", e |-> e]
Unwind(e) == [k |-> "unwind", e |-> e]

\* suspend at label pc on the primitive aw
At(f, pc, aw) == Await([f EXCEPT !.pc = pc, !.aw = aw])
\* call g and continue at label pc with its result
CallAt(f, pc, g) == Call([f EXCEPT !.pc = pc, !.aw = ""], g)

None == <<>>

----------------------------------------------------------------------------
(* Command/reply framing *)

\* len(cmd) > 127
\* a size check that lets one more byte through
TooLong_OffByOne(cmd) == Len(cmd) > BufferLimit + 1

TooLong(cmd) == Len(cmd) > BufferLimit

\* ErrorCode(err) of write and __wait_for_rqs: the enum lookup raises
\* ValueError for a value that is not a member
DecodeErrorCode(err) ==
    IF err \in ErrorCode THEN Exc("DeviceError", err, "")
    ELSE Exc("ValueError", err, "enum")

\* write that goes for the error code without looking for a pending reply
write_NoDrain(f, v) ==
    CASE f.pc = "entry" ->
            IF f.enc = "nonascii" THEN Raise(Exc("UnicodeEncodeError", -1, ""))
            ELSE IF TooLong(f.cmd) THEN Raise(Exc("ValueError", -1, "size"))
            ELSE At(f, "send", "conn.write")
      [] f.pc = "send" ->
            IF f.te THEN At(f, "sleep", "sleep") ELSE Return(None)
      [] f.pc = "sleep" -> At(f, "spoll", "serial_poll")
      [] f.pc = "spoll" ->
            IF HasFlag(v[1], ERROR_CONDITION)
            THEN CallAt(f, "err", Frame("get_error"))
            ELSE Return(None)
      [] f.pc = "err" -> Raise(DecodeErrorCode(v[1]))

write(f, v) ==
    CASE f.pc = "entry" ->
            IF f.enc = "nonascii" THEN Raise(Exc("UnicodeEncodeError", -1, ""))
            ELSE IF TooLong(f.cmd) THEN Raise(Exc("ValueError", -1, "size"))
            ELSE At(f, "send", "conn.write")
      [] f.pc = "send" ->
            IF f.te THEN At(f, "sleep", "sleep") ELSE Return(None)
      [] f.pc = "sleep" -> At(f, "spoll", "serial_poll")
      [] f.pc = "spoll" ->
            IF HasFlag(v[1], ERROR_CONDITION)
            THEN IF HasFlag(v[1], MSG_RDY)
                 THEN CallAt(f, "msg", Frame("read"))
                 ELSE CallAt(f, "err", Frame("get_error"))
            ELSE Return(None)
      [] f.pc = "msg" -> CallAt(f, "err", Frame("get_error"))
      [] f.pc = "err" -> Raise(DecodeErrorCode(v[1]))

\* a reply is the sequence of its separator-delimited fields; a sequence of
\* length one stands for the single string read() returns in that case
read(f, v) ==
    CASE f.pc = "entry" -> At(f, "recv", "conn.read")
      [] f.pc = "recv" -> Return(v)

query(f, v) ==
    CASE f.pc = "entry" -> CallAt(f, "write", WithCmd("write", f.cmd, f.te))
      [] f.pc = "write" -> CallAt(f, "read", Frame("read"))
      [] f.pc = "read" -> Return(v)

\* assert isinstance(result, str)
IsStr(v) == Len(v) = 1

get_error(f, v) ==
    CASE f.pc = "entry" -> CallAt(f, "query", WithCmd("query", "GERR", FALSE))
      [] f.pc = "query" ->
            IF IsStr(v) THEN Return(v)
            ELSE Raise(Exc("AssertionError", -1, ""))

\* get_state that hands on the number of the reply as it is
get_state_Raw(f, v) ==
    CASE f.pc = "entry" -> CallAt(f, "query", WithCmd("query", "GDNG", TRUE))
      [] f.pc = "query" ->
            IF ~IsStr(v) THEN Raise(Exc("AssertionError", -1, ""))
            ELSE Return(v)

get_state(f, v) ==
    CASE f.pc = "entry" -> CallAt(f, "query", WithCmd("query", "GDNG", TRUE))
      [] f.pc = "query" ->
            IF ~IsStr(v) THEN Raise(Exc("AssertionError", -1, ""))
            ELSE IF v[1] \in DeviceState THEN Return(v)
            ELSE Raise(Exc("ValueError", v[1], "enum"))

get_output(f, v) ==
    CASE f.pc = "entry" -> CallAt(f, "query", WithCmd("query", "GOUT", TRUE))
      [] f.pc = "query" ->
            IF IsStr(v) THEN Return(v)
            ELSE Raise(Exc("AssertionError", -1, ""))

set_srq_mask(f, v) ==
    CASE f.pc = "entry" ->
            CallAt(f, "write", WithCmd("write", "SSRQ " \o FormatD(f.v), TRUE))
      [] f.pc = "write" -> Return(None)

wait_for_state_change(f, v) ==
    CASE f.pc = "entry" -> At(f, "spoll", "serial_poll")
      [] f.pc = "spoll" ->
            IF HasFlag(v[1], DOING_STATE_CHANGE) THEN At(f, "sleep", "sleep")
            ELSE Return(None)
      [] f.pc = "sleep" -> At(f, "spoll", "serial_poll")

\* __set_terminator that does not wait for the device to settle
set_terminator_NoWait(f, v) ==
    CASE f.pc = "entry" ->
            CallAt(f, "write", WithCmd("write", "STRM " \o FormatD(f.v), TRUE))
      [] f.pc = "write" -> Return(None)

set_terminator(f, v) ==
    CASE f.pc = "entry" ->
            CallAt(f, "write", WithCmd("write", "STRM " \o FormatD(f.v), TRUE))
      [] f.pc = "write" -> CallAt(f, "wait", Frame("wait_for_state_change"))
      [] f.pc = "wait" -> Return(None)

set_separator(f, v) ==
    CASE f.pc = "entry" ->
            CallAt(f, "write", WithCmd("write", "SSEP " \o FormatD(f.v), TRUE))
      [] f.pc = "write" -> CallAt(f, "wait", Frame("wait_for_state_change"))
      [] f.pc = "wait" -> Return(None)

\* a wait-for-service step that raises for the handshake error as well
wait_for_rqs_Strict(f, v) ==
    CASE f.pc = "entry" -> At(f, "wait", "conn.wait")
      [] f.pc = "wait" -> At(f, "spoll", "serial_poll")
      [] f.pc = "spoll" ->
            IF HasFlag(v[1], ERROR_CONDITION) /\ f.te
            THEN CallAt([f EXCEPT !.v = v[1]], "err", Frame("get_error"))
            ELSE Return(v)
      [] f.pc = "err" -> Raise(DecodeErrorCode(v[1]))

\* f.te is raise_error; f.v keeps spoll across the GERR query
wait_for_rqs(f, v) ==
    CASE f.pc = "entry" -> At(f, "wait", "conn.wait")
      [] f.pc = "wait" -> At(f, "spoll", "serial_poll")
      [] f.pc = "spoll" ->
            IF HasFlag(v[1], ERROR_CONDITION) /\ f.te
            THEN CallAt([f EXCEPT !.v = v[1]], "err", Frame("get_error"))
            ELSE Return(v)
      [] f.pc = "err" ->
            IF v[1] = GPIB_HANDSHAKE_ERROR THEN Return(<<f.v>>)
            ELSE Raise(DecodeErrorCode(v[1]))

\* a transport that propagated the timeout of the wait
wait_for_rqs_except_Propagates(f, e) == Unwind(e)

\* except asyncio.TimeoutError: a warning is logged and the serial poll
\* follows as after a service request
wait_for_rqs_except(f, e) ==
    IF f.pc = "wait" /\ e.type = "TimeoutError"
    THEN At(f, "spoll", "serial_poll")
    ELSE Unwind(e)

\* a wait-for-service step that raises on error whatever its caller asks
WaitForRqs_AlwaysRaises(raise_error) == [Frame("wait_for_rqs") EXCEPT !.te = TRUE]

\* self.__wait_for_rqs(raise_error=...)
WaitForRqs(raise_error) == [Frame("wait_for_rqs") EXCEPT !.te = raise_error]

\* a wait for idle that is content with the first state it reads
wait_for_idle_Once(f, v) ==
    CASE f.pc = "entry" -> CallAt(f, "state", Frame("get_state"))
      [] f.pc = "state" -> Return(None)

\* state = get_state(); while state != IDLE: __wait_for_rqs(); get_state()
wait_for_idle(f, v) ==
    CASE f.pc = "entry" -> CallAt(f, "state", Frame("get_state"))
      [] f.pc = "state" ->
            IF v[1] # IDLE THEN CallAt(f, "rqs", WaitForRqs(TRUE))
            ELSE Return(None)
      [] f.pc = "rqs" -> CallAt(f, "state", Frame("get_state"))

----------------------------------------------------------------------------
(* Operations that take the session lock *)

\* assert self.__lock is not None; async with self.__lock:
\* an operation that goes for the lock without looking at it
WithLock_Unchecked(f) == At([f EXCEPT !.lk = lock], "acquire", "acquire")

\* assert self.__lock is not None; async with self.__lock:
WithLock(f) ==
    IF lock = 0 THEN Raise(Exc("AssertionError", -1, ""))
    ELSE At([f EXCEPT !.lk = lock], "acquire", "acquire")

\* leaving the async with block: the lock is released, then the block's
\* result or exception goes to the caller
Leave(f) == At(f, "release", "release")
Left(f) == IF f.pend = NoExc THEN Return(<<f.v>>) ELSE Unwind(f.pend)

\* a finally clause that leaves the mask as the operation set it
Finally_KeepsMask(f, e) ==
    CallAt([f EXCEPT !.pend = e], "finally",
           WithArg("set_srq_mask", DOING_STATE_CHANGE))

\* finally: await self.set_srq_mask(SrqMask.NONE)
Finally(f, e) ==
    CallAt([f EXCEPT !.pend = e], "finally", WithArg("set_srq_mask", SRQ_NONE))

\* a self-test that reports its fault as a plain device error
DecodeSelfTestErrorCode_Plain(name, err) == Exc("DeviceError", err, name)

\* SelfTestErrorCode(error_code) of the self-tests
DecodeSelfTestErrorCode(name, err) ==
    IF err \in SelfTestErrorCode THEN Exc("SelftestError", err, name)
    ELSE Exc("ValueError", err, "enum")

\* a self-test whose loop does not end when the state read is IDLE
selftest_NoBreak(f, v, trigger, name) ==
    CASE f.pc = "entry" -> WithLock(f)
      [] f.pc = "acquire" ->
            CallAt(f, "srq", WithArg("set_srq_mask", DOING_STATE_CHANGE))
      [] f.pc = "srq" -> CallAt(f, "idle", Frame("wait_for_idle"))
      [] f.pc = "idle" -> CallAt(f, "trigger", WithCmd("write", trigger, TRUE))
      [] f.pc = "trigger" -> CallAt(f, "rqs", WaitForRqs(FALSE))
      [] f.pc = "rqs" ->
            IF HasFlag(v[1], ERROR_CONDITION)
            THEN CallAt(f, "err", Frame("get_error"))
            ELSE IF HasFlag(v[1], DOING_STATE_CHANGE)
            THEN CallAt(f, "state", Frame("get_state"))
            ELSE CallAt(f, "rqs", WaitForRqs(FALSE))
      [] f.pc = "err" -> Raise(DecodeSelfTestErrorCode(name, v[1]))
      [] f.pc = "state" -> CallAt(f, "rqs", WaitForRqs(FALSE))
      [] f.pc = "finally" -> Leave(f)
      [] f.pc = "release" -> Left(f)

\* the body shared by selftest_digital, selftest_analog and selftest_hv,
\* which differ in the trigger, the name and the states they log as valid
selftest(f, v, trigger, name) ==
    CASE f.pc = "entry" -> WithLock(f)
      [] f.pc = "acquire" ->
            CallAt(f, "srq", WithArg("set_srq_mask", DOING_STATE_CHANGE))
      [] f.pc = "srq" -> CallAt(f, "idle", Frame("wait_for_idle"))
      [] f.pc = "idle" -> CallAt(f, "trigger", WithCmd("write", trigger, TRUE))
      [] f.pc = "trigger" -> CallAt(f, "rqs", WaitForRqs(FALSE))
      [] f.pc = "rqs" ->
            IF HasFlag(v[1], ERROR_CONDITION)
            THEN CallAt(f, "err", Frame("get_error"))
            ELSE IF HasFlag(v[1], DOING_STATE_CHANGE)
            THEN CallAt(f, "state", Frame("get_state"))
            ELSE CallAt(f, "rqs", WaitForRqs(FALSE))
      [] f.pc = "err" -> Raise(DecodeSelfTestErrorCode(name, v[1]))
      [] f.pc = "state" ->
            IF v[1] = IDLE THEN Finally(f, NoExc)
            ELSE CallAt(f, "rqs", WaitForRqs(FALSE))
      [] f.pc = "finally" -> Leave(f)
      [] f.pc = "release" -> Left(f)

selftest_digital(f, v) == selftest(f, v, "TSTD", "Digital")
selftest_analog(f, v) == selftest(f, v, "TSTA", "Analog")
selftest_hv(f, v) == selftest(f, v, "TSTH", "High voltage")

\* selftest_all that goes on with the next phase after a failed one
selftest_all_GoesOn(f, e) ==
    IF f.fn = "selftest_all" /\ f.pc = "digital"
    THEN CallAt(f, "analog", Frame("selftest_analog"))
    ELSE Unwind(e)

\* an exception of a phase leaves selftest_all at once
selftest_all_except(f, e) == Unwind(e)

selftest_all(f, v) ==
    CASE f.pc = "entry" -> CallAt(f, "digital", Frame("selftest_digital"))
      [] f.pc = "digital" -> CallAt(f, "analog", Frame("selftest_analog"))
      [] f.pc = "analog" -> CallAt(f, "hv", Frame("selftest_hv"))
      [] f.pc = "hv" -> Return(None)

\* the try block of the self-tests and of acal starts after the first
\* set_srq_mask; an exception of that call only leaves the async with block
selftest_except(f, e) ==
    CASE f.pc \in {"idle", "trigger", "rqs", "err", "state"} -> Finally(f, e)
      [] f.pc = "finally" -> Leave([f EXCEPT !.pend = During(e, f.pend)])
      [] f.pc = "srq" -> Leave([f EXCEPT !.pend = e])
      [] OTHER -> Unwind(e)

\* acal that issues CALI without waiting for the device to be idle
acal_NoWait(f, v) ==
    CASE f.pc = "entry" -> WithLock(f)
      [] f.pc = "acquire" ->
            CallAt(f, "srq", WithArg("set_srq_mask", DOING_STATE_CHANGE))
      [] f.pc = "srq" -> CallAt(f, "trigger", WithCmd("write", "CALI", TRUE))
      [] f.pc = "trigger" -> CallAt(f, "rqs", WaitForRqs(TRUE))
      [] f.pc = "rqs" -> CallAt(f, "state", Frame("get_state"))
      [] f.pc = "state" ->
            IF v[1] = IDLE THEN Finally(f, NoExc)
            ELSE CallAt(f, "rqs", WaitForRqs(TRUE))
      [] f.pc = "finally" -> Leave(f)
      [] f.pc = "release" -> Left(f)

\* the states each waiting loop expects of the device; any other state is
\* logged as a warning and changes nothing else
LegalStates(fn) ==
    CASE fn = "selftest_digital" -> {IDLE, SELF_TEST_MAIN_CPU, 113, 114}
      [] fn = "selftest_analog" ->
            {IDLE, CALIBRATING_ADC, SELF_TEST_LOW_VOLTAGE, 130}
      [] fn = "selftest_hv" -> {IDLE, CALIBRATING_ADC, SELF_TEST_HIGH_VOLTAGE}
      [] fn = "acal" ->
            {IDLE, CALIBRATING_ADC, 32, 96, 33, 34, 35, 36, 37, 38, 39, 48,
             49, 50, 51, 52, 53, WRITING_TO_NVRAM}
      [] OTHER -> DeviceState

\* acal that leaves its loop when the device is in a state it does not expect
acal_StopsOnInvalid(f, v) ==
    CASE f.pc = "entry" -> WithLock(f)
      [] f.pc = "acquire" ->
            CallAt(f, "srq", WithArg("set_srq_mask", DOING_STATE_CHANGE))
      [] f.pc = "srq" -> CallAt(f, "idle", Frame("wait_for_idle"))
      [] f.pc = "idle" -> CallAt(f, "trigger", WithCmd("write", "CALI", TRUE))
      [] f.pc = "trigger" -> CallAt(f, "rqs", WaitForRqs(TRUE))
      [] f.pc = "rqs" -> CallAt(f, "state", Frame("get_state"))
      [] f.pc = "state" ->
            IF v[1] \notin (LegalStates("acal") \ {IDLE}) THEN Finally(f, NoExc)
            ELSE CallAt(f, "rqs", WaitForRqs(TRUE))
      [] f.pc = "finally" -> Leave(f)
      [] f.pc = "release" -> Left(f)

acal(f, v) ==
    CASE f.pc = "entry" -> WithLock(f)
      [] f.pc = "acquire" ->
            CallAt(f, "srq", WithArg("set_srq_mask", DOING_STATE_CHANGE))
      [] f.pc = "srq" -> CallAt(f, "idle", Frame("wait_for_idle"))
      [] f.pc = "idle" -> CallAt(f, "trigger", WithCmd("write", "CALI", TRUE))
      [] f.pc = "trigger" -> CallAt(f, "rqs", WaitForRqs(TRUE))
      [] f.pc = "rqs" -> CallAt(f, "state", Frame("get_state"))
      [] f.pc = "state" ->
            IF v[1] = IDLE THEN Finally(f, NoExc)
            ELSE CallAt(f, "rqs", WaitForRqs(TRUE))
      [] f.pc = "finally" -> Leave(f)
      [] f.pc = "release" -> Left(f)

\* set_rs232_baud_rate that looks at its argument inside the locked section
set_rs232_baud_rate_LateCheck(f, v) ==
    CASE f.pc = "entry" -> WithLock(f)
      [] f.pc = "acquire" ->
            IF f.v \notin SeqRange(BAUD_RATES_AVAILABLE)
            THEN Finally(f, Exc("ValueError", -1, "baud"))
            ELSE CallAt(f, "sbdr",
                   WithCmd("write",
                           "SBDR " \o FormatD(IndexOf(BAUD_RATES_AVAILABLE, f.v, 1)),
                           TRUE))
      [] f.pc = "sbdr" ->
            CallAt(f, "srq", WithArg("set_srq_mask", DOING_STATE_CHANGE))
      [] f.pc = "srq" -> At(f, "sleep", "sleep")
      [] f.pc = "sleep" -> CallAt(f, "idle", Frame("wait_for_idle"))
      [] f.pc = "idle" -> Finally(f, NoExc)
      [] f.pc = "finally" -> Leave(f)
      [] f.pc = "release" -> Left(f)

\* f.v is the baud rate asked for
\* set_rs232_baud_rate that does not wait for the NVRAM write
set_rs232_baud_rate_NoWait(f, v) ==
    CASE f.pc = "entry" ->
            IF f.v \notin SeqRange(BAUD_RATES_AVAILABLE)
            THEN Raise(Exc("ValueError", -1, "baud"))
            ELSE WithLock(f)
      [] f.pc = "acquire" ->
            CallAt(f, "sbdr",
                   WithCmd("write",
                           "SBDR " \o FormatD(IndexOf(BAUD_RATES_AVAILABLE, f.v, 1)),
                           TRUE))
      [] f.pc = "sbdr" ->
            CallAt(f, "srq", WithArg("set_srq_mask", DOING_STATE_CHANGE))
      [] f.pc = "srq" -> At(f, "sleep", "sleep")
      [] f.pc = "sleep" -> Finally(f, NoExc)
      [] f.pc = "finally" -> Leave(f)
      [] f.pc = "release" -> Left(f)

set_rs232_baud_rate(f, v) ==
    CASE f.pc = "entry" ->
            IF f.v \notin SeqRange(BAUD_RATES_AVAILABLE)
            THEN Raise(Exc("ValueError", -1, "baud"))
            ELSE WithLock(f)
      [] f.pc = "acquire" ->
            CallAt(f, "sbdr",
                   WithCmd("write",
                           "SBDR " \o FormatD(IndexOf(BAUD_RATES_AVAILABLE, f.v, 1)),
                           TRUE))
      [] f.pc = "sbdr" ->
            CallAt(f, "srq", WithArg("set_srq_mask", DOING_STATE_CHANGE))
      [] f.pc = "srq" -> At(f, "sleep", "sleep")
      [] f.pc = "sleep" -> CallAt(f, "idle", Frame("wait_for_idle"))
      [] f.pc = "idle" -> Finally(f, NoExc)
      [] f.pc = "finally" -> Leave(f)
      [] f.pc = "release" -> Left(f)

set_rs232_baud_rate_except(f, e) ==
    CASE f.pc \in {"sbdr", "srq", "sleep", "idle"} -> Finally(f, e)
      [] f.pc = "finally" -> Leave([f EXCEPT !.pend = During(e, f.pend)])
      [] OTHER -> Unwind(e)

\* the transport is a Prologix controller, which has set_eot
HasSetEot == TRUE

\* connect after self.__lock = asyncio.Lock(), which the action starting
\* the call performs
\* a decoding of the stale error code that knows the general codes only
KnownErrorCode_GeneralOnly(err) == err \in ErrorCode

\* try: ErrorCode(err) except ValueError: SelfTestErrorCode(err)
KnownErrorCode(err) == err \in ErrorCode \/ err \in SelfTestErrorCode

connect(f, v) ==
    CASE f.pc = "entry" -> At(f, "connect", "conn.connect")
      [] f.pc = "connect" ->
            IF HasSetEot THEN At(f, "set_eot", "conn.set_eot")
            ELSE At([f EXCEPT !.lk = lock], "acquire", "acquire")
      [] f.pc = "set_eot" -> At([f EXCEPT !.lk = lock], "acquire", "acquire")
      [] f.pc = "acquire" -> At(f, "spoll", "serial_poll")
      [] f.pc = "spoll" ->
            IF HasFlag(v[1], MSG_RDY) THEN CallAt(f, "msg", Frame("read"))
            ELSE IF HasFlag(v[1], ERROR_CONDITION)
            THEN CallAt(f, "err", Frame("get_error"))
            ELSE CallAt(f, "state", Frame("get_state"))
      [] f.pc = "msg" -> At(f, "spoll", "serial_poll")
      [] f.pc = "err" ->
            IF KnownErrorCode(v[1])
            THEN CallAt(f, "state", Frame("get_state"))
            ELSE Raise(Exc("ValueError", v[1], "enum"))
      [] f.pc = "state" ->
            IF v[1] # IDLE
            THEN CallAt(f, "srq", WithArg("set_srq_mask", DOING_STATE_CHANGE))
            ELSE CallAt(f, "strm", WithArg("set_terminator", LF_EOI))
      [] f.pc = "srq" -> CallAt(f, "idle", Frame("wait_for_idle"))
      [] f.pc = "idle" -> CallAt(f, "strm", WithArg("set_terminator", LF_EOI))
      [] f.pc = "strm" -> CallAt(f, "ssep", WithArg("set_separator", COMMA))
      [] f.pc = "ssep" -> CallAt(f, "srq0", WithArg("set_srq_mask", SRQ_NONE))
      [] f.pc = "srq0" -> Leave(f)
      [] f.pc = "release" -> Left(f)

\* an async with block that an exception leaves with the lock still held
locked_except_NoRelease(f, e) == Unwind(e)

\* an exception inside an async with block that has no try of its own
locked_except(f, e) ==
    IF f.pc \in {"entry", "connect", "set_eot", "acquire", "release"}
    THEN Unwind(e)
    ELSE Leave([f EXCEPT !.pend = e])

\* reset that asks for the state right after the device clear
reset_NoPoll(f, v) ==
    CASE f.pc = "entry" -> WithLock(f)
      [] f.pc = "acquire" -> At(f, "clear", "conn.clear")
      [] f.pc = "clear" -> CallAt(f, "state", Frame("get_state"))
      [] f.pc = "state" ->
            IF v[1] # IDLE THEN At(f, "sleep", "sleep")
            ELSE CallAt(f, "strm", WithArg("set_terminator", LF_EOI))
      [] f.pc = "sleep" -> CallAt(f, "state", Frame("get_state"))
      [] f.pc = "strm" -> CallAt(f, "ssep", WithArg("set_separator", COMMA))
      [] f.pc = "ssep" -> CallAt(f, "srq0", WithArg("set_srq_mask", SRQ_NONE))
      [] f.pc = "srq0" -> Leave(f)
      [] f.pc = "release" -> Left(f)

reset(f, v) ==
    CASE f.pc = "entry" -> WithLock(f)
      [] f.pc = "acquire" -> At(f, "clear", "conn.clear")
      [] f.pc = "clear" -> CallAt(f, "wait", Frame("wait_for_state_change"))
      [] f.pc = "wait" -> CallAt(f, "state", Frame("get_state"))
      [] f.pc = "state" ->
            IF v[1] # IDLE THEN At(f, "sleep", "sleep")
            ELSE CallAt(f, "strm", WithArg("set_terminator", LF_EOI))
      [] f.pc = "sleep" -> CallAt(f, "state", Frame("get_state"))
      [] f.pc = "strm" -> CallAt(f, "ssep", WithArg("set_separator", COMMA))
      [] f.pc = "ssep" -> CallAt(f, "srq0", WithArg("set_srq_mask", SRQ_NONE))
      [] f.pc = "srq0" -> Leave(f)
      [] f.pc = "release" -> Left(f)

\* TerminatorType(term)
TerminatorType == 0..4

get_terminator(f, v) ==
    CASE f.pc = "entry" -> WithLock(f)
      [] f.pc = "acquire" -> CallAt(f, "query", WithCmd("query", "GTRM", TRUE))
      [] f.pc = "query" ->
            IF ~IsStr(v) THEN Raise(Exc("AssertionError", -1, ""))
            ELSE IF v[1] \in TerminatorType THEN Leave([f EXCEPT !.v = v[1]])
            ELSE Raise(Exc("ValueError", v[1], "enum"))
      [] f.pc = "release" -> Left(f)

local(f, v) ==
    CASE f.pc = "entry" -> At(f, "ibloc", "conn.ibloc")
      [] f.pc = "ibloc" -> Return(None)

disconnect(f, v) ==
    CASE f.pc = "entry" -> CallAt(f, "local", Frame("local"))
      [] f.pc = "local" -> At(f, "disconnect", "conn.disconnect")
      [] f.pc = "disconnect" ->
            IF f.pend = NoExc THEN Return(None) ELSE Unwind(f.pend)

\* a disconnect() without the except clause
disconnect_except_Strict(f, e) ==
    CASE f.pc = "local" -> At([f EXCEPT !.pend = e], "disconnect", "conn.disconnect")
      [] f.pc = "disconnect" -> Unwind(During(e, f.pend))
      [] OTHER -> Unwind(e)

\* except ConnectionError: pass; finally: await self.__conn.disconnect()
disconnect_except(f, e) ==
    CASE f.pc = "local" ->
            IF e.type = "ConnectionError" THEN At(f, "disconnect", "conn.disconnect")
            ELSE At([f EXCEPT !.pend = e], "disconnect", "conn.disconnect")
      [] f.pc = "disconnect" -> Unwind(During(e, f.pend))
      [] OTHER -> Unwind(e)

----------------------------------------------------------------------------
(* Settings *)

\* the setter without the test on the signs of value and value2
set_limit_AnySigns(f, v, verb, max) ==
    LET value == f.v[1]
        value2 == f.v[2]
        first == WithCmd("write", verb \o Join(limit_numeric(value)), TRUE)
    IN CASE f.pc = "entry" ->
            IF Gt(Whole(-max), value) /\ Gt(value, Whole(max))
            THEN Raise(Exc("ValueError", -1, "range"))
            ELSE IF value2 = NoValue THEN CallAt(f, "value", first)
            ELSE IF ~(Le(Whole(-max), value2) /\ Le(value2, Whole(max)))
            THEN Raise(Exc("ValueError", -1, "range"))
            ELSE CallAt(f, "value2",
                        WithCmd("write", verb \o Join(limit_numeric(value2)), TRUE))
         [] f.pc = "value2" -> CallAt(f, "value", first)
         [] f.pc = "value" -> Return(None)

\* the setter that writes value before value2
set_limit_ValueFirst(f, v, verb, max) ==
    LET value == f.v[1]
        value2 == f.v[2]
        first == WithCmd("write", verb \o Join(limit_numeric(value)), TRUE)
    IN CASE f.pc = "entry" ->
            IF Gt(Whole(-max), value) /\ Gt(value, Whole(max))
            THEN Raise(Exc("ValueError", -1, "range"))
            ELSE IF value2 = NoValue THEN CallAt(f, "value", first)
            ELSE IF ~(Le(Whole(-max), value2) /\ Le(value2, Whole(max)))
            THEN Raise(Exc("ValueError", -1, "range"))
            ELSE IF ~ProductNotPositive(value, value2)
            THEN Raise(Exc("ValueError", -1, "limit"))
            ELSE CallAt(f, "value2", first)
         [] f.pc = "value2" ->
            CallAt(f, "value",
                   WithCmd("write", verb \o Join(limit_numeric(value2)), TRUE))
         [] f.pc = "value" -> Return(None)

\* set_voltage_limit and set_current_limit: f.v is <<value, value2>>, verb
\* the command and max the largest magnitude. The first test is written
\* -max > value > max in the source, a chained comparison
set_limit(f, v, verb, max) ==
    LET value == f.v[1]
        value2 == f.v[2]
        first == WithCmd("write", verb \o Join(limit_numeric(value)), TRUE)
    IN CASE f.pc = "entry" ->
            IF Gt(Whole(-max), value) /\ Gt(value, Whole(max))
            THEN Raise(Exc("ValueError", -1, "range"))
            ELSE IF value2 = NoValue THEN CallAt(f, "value", first)
            ELSE IF ~(Le(Whole(-max), value2) /\ Le(value2, Whole(max)))
            THEN Raise(Exc("ValueError", -1, "range"))
            ELSE IF ~ProductNotPositive(value, value2)
            THEN Raise(Exc("ValueError", -1, "limit"))
            ELSE CallAt(f, "value2",
                        WithCmd("write", verb \o Join(limit_numeric(value2)), TRUE))
         [] f.pc = "value2" -> CallAt(f, "value", first)
         [] f.pc = "value" -> Return(None)

\* except DeviceError: LIMIT_OUT_OF_RANGE becomes ValueError, from None
set_limit_except(f, e) ==
    IF /\ f.pc \in {"value2", "value"}
       /\ e.type = "DeviceError" /\ e.code = LIMIT_OUT_OF_RANGE
    THEN Unwind(Exc("ValueError", -1, "limit"))
    ELSE Unwind(e)

set_voltage_limit(f, v) == set_limit(f, v, "SVLM ", 1500)
set_current_limit(f, v) == set_limit(f, v, "SCLM ", 20)

\* set_output(value): f.v is the value
set_output(f, v) ==
    CASE f.pc = "entry" ->
            IF Gt(Whole(-1500), f.v) /\ Gt(f.v, Whole(1500))
            THEN Raise(Exc("ValueError", -1, "range"))
            ELSE CallAt(f, "write",
                        WithCmd("write", "SOUT " \o Join(limit_numeric(f.v)), TRUE))
      [] f.pc = "write" -> Return(None)

\* set_internal_sense(enabled) and set_internal_guard(enabled): f.v is
\* enabled
set_internal_sense(f, v) ==
    CASE f.pc = "entry" ->
            CallAt(f, "write",
                   WithCmd("write", IF f.v THEN "ISNS" ELSE "ESNS", TRUE))
      [] f.pc = "write" -> Return(None)

set_internal_guard(f, v) ==
    CASE f.pc = "entry" ->
            CallAt(f, "write",
                   WithCmd("write", IF f.v THEN "IGRD" ELSE "EGRD", TRUE))
      [] f.pc = "write" -> Return(None)

\* a setter that takes every DeviceError for a bad argument
Translates_AnyCode(f, e, code, type) ==
    IF f.pc = "write" /\ e.type = "DeviceError"
    THEN Unwind(Exc(type, -1, "")) ELSE Unwind(e)

\* except DeviceError as e: if e.code == code: raise type(...) from None;
\* raise
Translates(f, e, code, type) ==
    IF f.pc = "write" /\ e.type = "DeviceError" /\ e.code = code
    THEN Unwind(Exc(type, -1, "")) ELSE Unwind(e)

set_output_except(f, e) ==
    Translates(f, e, OUTPUT_OUTSIDE_LIMITS, "ValueError")
set_internal_sense_except(f, e) ==
    Translates(f, e, INVALID_SENSE_MODE, "TypeError")
set_internal_guard_except(f, e) ==
    Translates(f, e, INVALID_GUARD_MODE, "TypeError")

\* the reply has the positive limit first; the result the negative one
get_voltage_limit(f, v) ==
    CASE f.pc = "entry" -> CallAt(f, "query", WithCmd("query", "GVLM", TRUE))
      [] f.pc = "query" ->
            IF Len(v) < 2 THEN Raise(Exc("IndexError", -1, ""))
            ELSE Return(<<Decimal(v[2]), Decimal(v[1])>>)

get_rs232_baud_rate(f, v) ==
    CASE f.pc = "entry" -> CallAt(f, "query", WithCmd("query", "GBDR", TRUE))
      [] f.pc = "query" ->
            IF ~IsStr(v) THEN Raise(Exc("AssertionError", -1, ""))
            ELSE IF v[1] \in 0..(Len(BAUD_RATES_AVAILABLE) - 1)
            THEN Return(<<BAUD_RATES_AVAILABLE[v[1] + 1]>>)
            ELSE Raise(Exc("IndexError", -1, ""))

\* the record with the gains of the 0.2 V and 2 V ranges in the order of the
\* other ranges
CalibrationConstants_InOrder(values) ==
    [gain_02V |-> Decimal(values[4 + 1]),
     gain_2V |-> Decimal(values[5 + 1]),
     gain_10V |-> Decimal(values[0 + 1]),
     gain_20V |-> Decimal(values[1 + 1]),
     gain_250V |-> Decimal(values[2 + 1]),
     gain_1000V |-> Decimal(values[3 + 1]),
     offset_10V_pos |-> Decimal(values[6 + 1]),
     offset_20V_pos |-> Decimal(values[7 + 1]),
     offset_250V_pos |-> Decimal(values[8 + 1]),
     offset_1000V_pos |-> Decimal(values[9 + 1]),
     offset_10V_neg |-> Decimal(values[10 + 1]),
     offset_20V_neg |-> Decimal(values[11 + 1]),
     offset_250V_neg |-> Decimal(values[12 + 1]),
     offset_1000V_neg |-> Decimal(values[13 + 1]),
     gain_shift_10V |-> Decimal(values[14 + 1]),
     gain_shift_20V |-> Decimal(values[15 + 1]),
     gain_shift_250V |-> Decimal(values[16 + 1]),
     gain_shift_1000V |-> Decimal(values[17 + 1]),
     resolution_ratio |-> Decimal(values[18 + 1]),
     adc_gain |-> Decimal(values[19 + 1])]

\* CalibrationConstants(...) from the twenty reply fields, numbered from 0
CalibrationConstants(values) ==
    [gain_02V |-> Decimal(values[5 + 1]),
     gain_2V |-> Decimal(values[4 + 1]),
     gain_10V |-> Decimal(values[0 + 1]),
     gain_20V |-> Decimal(values[1 + 1]),
     gain_250V |-> Decimal(values[2 + 1]),
     gain_1000V |-> Decimal(values[3 + 1]),
     offset_10V_pos |-> Decimal(values[6 + 1]),
     offset_20V_pos |-> Decimal(values[7 + 1]),
     offset_250V_pos |-> Decimal(values[8 + 1]),
     offset_1000V_pos |-> Decimal(values[9 + 1]),
     offset_10V_neg |-> Decimal(values[10 + 1]),
     offset_20V_neg |-> Decimal(values[11 + 1]),
     offset_250V_neg |-> Decimal(values[12 + 1]),
     offset_1000V_neg |-> Decimal(values[13 + 1]),
     gain_shift_10V |-> Decimal(values[14 + 1]),
     gain_shift_20V |-> Decimal(values[15 + 1]),
     gain_shift_250V |-> Decimal(values[16 + 1]),
     gain_shift_1000V |-> Decimal(values[17 + 1]),
     resolution_ratio |-> Decimal(values[18 + 1]),
     adc_gain |-> Decimal(values[19 + 1])]

\* f.v holds the fields of the first reply across the second query
\* a get_calibration_constants that asks for the twenty constants at once
get_calibration_constants_OneQuery(f, v) ==
    CASE f.pc = "entry" -> WithLock(f)
      [] f.pc = "acquire" ->
            CallAt([f EXCEPT !.v = <<>>], "second",
                   WithCmd("query", GcalCommand(0, 19), TRUE))
      [] f.pc = "second" ->
            IF Len(f.v \o v) < 20 THEN Raise(Exc("IndexError", -1, ""))
            ELSE Leave([f EXCEPT !.v = CalibrationConstants(f.v \o v)])
      [] f.pc = "release" -> Left(f)

get_calibration_constants(f, v) ==
    CASE f.pc = "entry" -> WithLock(f)
      [] f.pc = "acquire" ->
            CallAt(f, "first", WithCmd("query", GcalCommand(0, 9), TRUE))
      [] f.pc = "first" ->
            CallAt([f EXCEPT !.v = v], "second",
                   WithCmd("query", GcalCommand(10, 19), TRUE))
      [] f.pc = "second" ->
            IF Len(f.v \o v) < 20 THEN Raise(Exc("IndexError", -1, ""))
            ELSE Leave([f EXCEPT !.v = CalibrationConstants(f.v \o v)])
      [] f.pc = "release" -> Left(f)

----------------------------------------------------------------------------
(* Running a coroutine up to its next await *)

\* what frame f does once its pending await has produced v
Step(f, v) ==
    CASE f.fn = "write" -> write(f, v)
      [] f.fn = "read" -> read(f, v)
      [] f.fn = "query" -> query(f, v)
      [] f.fn = "get_error" -> get_error(f, v)
      [] f.fn = "get_state" -> get_state(f, v)
      [] f.fn = "get_output" -> get_output(f, v)
      [] f.fn = "set_srq_mask" -> set_srq_mask(f, v)
      [] f.fn = "wait_for_state_change" -> wait_for_state_change(f, v)
      [] f.fn = "set_terminator" -> set_terminator(f, v)
      [] f.fn = "set_separator" -> set_separator(f, v)
      [] f.fn = "wait_for_rqs" -> wait_for_rqs(f, v)
      [] f.fn = "wait_for_idle" -> wait_for_idle(f, v)
      [] f.fn = "selftest_digital" -> selftest_digital(f, v)
      [] f.fn = "selftest_analog" -> selftest_analog(f, v)
      [] f.fn = "selftest_hv" -> selftest_hv(f, v)
      [] f.fn = "selftest_all" -> selftest_all(f, v)
      [] f.fn = "acal" -> acal(f, v)
      [] f.fn = "set_rs232_baud_rate" -> set_rs232_baud_rate(f, v)
      [] f.fn = "connect" -> connect(f, v)
      [] f.fn = "reset" -> reset(f, v)
      [] f.fn = "get_terminator" -> get_terminator(f, v)
      [] f.fn = "local" -> local(f, v)
      [] f.fn = "disconnect" -> disconnect(f, v)
      [] f.fn = "set_voltage_limit" -> set_voltage_limit(f, v)
      [] f.fn = "set_current_limit" -> set_current_limit(f, v)
      [] f.fn = "set_output" -> set_output(f, v)
      [] f.fn = "set_internal_sense" -> set_internal_sense(f, v)
      [] f.fn = "set_internal_guard" -> set_internal_guard(f, v)
      [] f.fn = "get_voltage_limit" -> get_voltage_limit(f, v)
      [] f.fn = "get_rs232_baud_rate" -> get_rs232_baud_rate(f, v)
      [] f.fn = "get_calibration_constants" -> get_calibration_constants(f, v)

\* what frame f does with an exception raised at its pending await
Except(f, e) ==
    CASE f.fn \in {"selftest_digital", "selftest_analog", "selftest_hv", "acal"} ->
            selftest_except(f, e)
      [] f.fn = "selftest_all" -> selftest_all_except(f, e)
      [] f.fn = "set_rs232_baud_rate" -> set_rs232_baud_rate_except(f, e)
      [] f.fn \in {"connect", "reset", "get_terminator",
                  "get_calibration_constants"} -> locked_except(f, e)
      [] f.fn \in {"set_voltage_limit", "set_current_limit"} ->
            set_limit_except(f, e)
      [] f.fn = "disconnect" -> disconnect_except(f, e)
      [] f.fn = "set_output" -> set_output_except(f, e)
      [] f.fn = "set_internal_sense" -> set_internal_sense_except(f, e)
      [] f.fn = "set_internal_guard" -> set_internal_guard_except(f, e)
      [] f.fn = "wait_for_rqs" -> wait_for_rqs_except(f, e)
      [] OTHER -> Unwind(e)

Top(stack) == stack[Len(stack)]
Pop(stack) == SubSeq(stack, 1, Len(stack) - 1)
SetTop(stack, f) == [stack EXCEPT ![Len(stack)] = f]

RECURSIVE Run(_, _)
\* carry out instruction i of the top frame and everything that follows
\* without suspending; an empty stack means the public call has ended
Run(stack, i) ==
    CASE i.k = "await" ->
            [stack |-> SetTop(stack, i.f), ret |-> None, exc |-> NoExc]
      [] i.k = "call" ->
            Run(Append(SetTop(stack, i.f), i.g), Step(i.g, None))
      [] i.k = "return" ->
            IF Len(stack) = 1
            THEN [stack |-> <<>>, ret |-> i.v, exc |-> NoExc]
            ELSE Run(Pop(stack), Step(Top(Pop(stack)), i.v))
      [] i.k = "raise" -> Run(stack, Except(Top(stack), i.e))
      [] i.k = "unwind" ->
            IF Len(stack) = 1
            THEN [stack |-> <<>>, ret |-> None, exc |-> i.e]
            ELSE Run(Pop(stack), Except(Top(Pop(stack)), i.e))

----------------------------------------------------------------------------
(* The calibrator behind the transport *)

\* what the environment may do besides answering: error codes with which
\* the device rejects a command, fault codes it raises while it is busy,
\* the error a polling adapter provokes during a service-request wait,
\* whether a transport call may fail although the link is up
Faulty ==
    [reject |-> {GPIB_HANDSHAKE_ERROR, CAL_SWITCH_LOCKED},
     faults |-> {MAIN_CONTROL_FAULT_CHECK_MAIN_MEMORY},
     polling |-> {GPIB_HANDSHAKE_ERROR},
     link |-> TRUE]
Calm == [reject |-> {}, faults |-> {}, polling |-> {}, link |-> FALSE]
\* a device that refuses a setting with one of the codes the setters look
\* for, whatever the setting is
Picky ==
    [reject |-> {OUTPUT_OUTSIDE_LIMITS, LIMIT_OUT_OF_RANGE, INVALID_SENSE_MODE,
                 INVALID_GUARD_MODE},
     faults |-> {}, polling |-> {}, link |-> FALSE]
\* a device that, busy with a long operation, also trips its boost
\* interface, passes through a state the operation does not expect, or
\* answers GDNG with a number that is no state code
Harsh ==
    [reject |-> Faulty.reject, faults |-> Faulty.faults,
     polling |-> {GPIB_HANDSHAKE_ERROR, BOOST_INTERFACE_CURRENT_TRIP},
     link |-> TRUE,
     states |-> {PRINTING, RESETTING + 1}]

Reply(d, cmd, val) ==
    IF Len(d.out) < MaxOut
    THEN [d EXCEPT !.out = Append(@, [to |-> cmd, val |-> val])]
    ELSE d

\* the limits that the setters are called with: value and value2
Half == Dec(FALSE, 0, 50000000)
VoltageLimits ==
    {<<Whole(-10), Whole(10)>>, <<Whole(-1100), Whole(1100)>>,
     <<Dec(TRUE, 1000, 12340000), Dec(FALSE, 1000, 12340000)>>,
     <<[Half EXCEPT !.neg = TRUE], Half>>, <<Whole(0), Whole(10)>>,
     <<Whole(10), Whole(-10)>>, <<Whole(10), Whole(1100)>>,
     <<Whole(-10), Whole(-1100)>>, <<Whole(2000), NoValue>>,
     <<Whole(-2000), NoValue>>, <<Whole(-10), Whole(2000)>>,
     <<Whole(2000), Whole(-10)>>}
CurrentLimits ==
    {<<Whole(-1), Whole(1)>>, <<Whole(25), NoValue>>, <<Whole(-25), NoValue>>,
     <<Whole(-1), Whole(25)>>, <<Whole(25), Whole(-1)>>}

\* the texts of the numbers that reach the device
WireTexts ==
    {limit_numeric(l[i]) : l \in VoltageLimits \cup CurrentLimits, i \in 1..2}

\* the twenty calibration constants stored in the device, numbered from 0
CalibrationConstant(i) == Dec(i % 2 = 1, i + 1, i)

\* the device takes a limit: one above max is out of range, a negative one
\* is the negative limit, any other the positive limit
TakeLimit(d, cmd, verb, max, pos, neg) ==
    LET text == CHOOSE x \in WireTexts : cmd = verb \o Join(x)
        value == Decimal(text)
    IN IF ~MagLe(value, Whole(max))
       THEN IF d.err = 0 THEN [d EXCEPT !.err = LIMIT_OUT_OF_RANGE] ELSE d
       ELSE IF value.neg THEN [d EXCEPT ![neg] = value]
       ELSE [d EXCEPT ![pos] = value]

\* SOUT: an output beyond the voltage limits of the device is refused
TakeOutput(d, cmd) ==
    LET text == CHOOSE x \in WireTexts : cmd = "SOUT " \o Join(x)
        value == Decimal(text)
    IN IF Le(d.vneg, value) /\ Le(value, d.vpos) THEN d
       ELSE IF d.err = 0 THEN [d EXCEPT !.err = OUTPUT_OUTSIDE_LIMITS] ELSE d

\* the device when the driver is constructed
Device(state, err, out) ==
    [state |-> state, err |-> err, mask |-> SRQ_NONE, out |-> out,
     baud |-> 0, vpos |-> Whole(1500), vneg |-> Whole(-1500),
     cpos |-> Whole(20), cneg |-> Whole(-20)]

SrqCommands == {"SSRQ " \o FormatD(m) : m \in {SRQ_NONE, DOING_STATE_CHANGE}}
SrqArg(cmd) == CHOOSE m \in {SRQ_NONE, DOING_STATE_CHANGE} : cmd = "SSRQ " \o FormatD(m)

\* the device carries out a command it accepted
Exec(d, cmd) ==
    CASE cmd \in SrqCommands -> [d EXCEPT !.mask = SrqArg(cmd)]
      [] cmd = "GERR" -> [Reply(d, cmd, <<d.err>>) EXCEPT !.err = 0]
      [] cmd = "GDNG" -> Reply(d, cmd, <<d.state>>)
      [] cmd = "GOUT" -> Reply(d, cmd, <<10>>)
      [] cmd = "GTRM" -> Reply(d, cmd, <<LF_EOI>>)
      [] cmd = "TSTD" -> [d EXCEPT !.state = SELF_TEST_MAIN_CPU]
      [] cmd = "TSTA" -> [d EXCEPT !.state = SELF_TEST_LOW_VOLTAGE]
      [] cmd = "TSTH" -> [d EXCEPT !.state = SELF_TEST_HIGH_VOLTAGE]
      [] cmd = "CALI" -> [d EXCEPT !.state = CALIBRATING_ADC]
      [] cmd \in {"SBDR " \o FormatD(i) : i \in 0..12} ->
            [d EXCEPT !.state = WRITING_TO_NVRAM,
                      !.baud = CHOOSE i \in 0..12 : cmd = "SBDR " \o FormatD(i)]
      [] cmd = "GBDR" -> Reply(d, cmd, <<d.baud>>)
      [] cmd \in {"SVLM " \o Join(x) : x \in WireTexts} ->
            TakeLimit(d, cmd, "SVLM ", 1500, "vpos", "vneg")
      [] cmd \in {"SCLM " \o Join(x) : x \in WireTexts} ->
            TakeLimit(d, cmd, "SCLM ", 20, "cpos", "cneg")
      [] cmd \in {"SOUT " \o Join(x) : x \in WireTexts} -> TakeOutput(d, cmd)
      [] cmd \in {"ISNS", "ESNS", "IGRD", "EGRD"} -> d
      [] cmd = "GVLM" ->
            Reply(d, cmd, <<FixedPoint(d.vpos), FixedPoint(d.vneg)>>)
      [] cmd = GcalCommand(0, 9) ->
            Reply(d, cmd, [i \in 1..10 |-> FixedPoint(CalibrationConstant(i - 1))])
      [] cmd = GcalCommand(10, 19) ->
            Reply(d, cmd, [i \in 1..10 |-> FixedPoint(CalibrationConstant(i + 9))])
      [] cmd \in {"STRM " \o FormatD(LF_EOI), "SSEP " \o FormatD(COMMA)} -> d
      [] OTHER -> IF d.err = 0 THEN [d EXCEPT !.err = UNKNOWN_COMMAND] ELSE d

\* the device after the transport delivered cmd: it carried the command
\* out, or rejected it with an error code
Rejected(d, cmd, E) ==
    IF d.err = 0 /\ cmd # "GERR"
    THEN {[d EXCEPT !.err = c] : c \in E.reject} ELSE {}

\* the serial poll register: message ready and error condition follow the
\* output buffer and the pending error, the state-changing bit is the
\* device's own business
Polls(d) ==
    {dsc + (IF d.out # <<>> THEN MSG_RDY ELSE 0)
         + (IF d.err # 0 THEN ERROR_CONDITION ELSE 0) :
     dsc \in {0, DOING_STATE_CHANGE}}

----------------------------------------------------------------------------
(* The asyncio tasks *)

\* a task that has not called anything yet; besides the call stack it keeps
\* what the current public call was given and what it did on the transport
\* a reply to get_error or get_state: the command, the number read and the
\* coroutine that called the getter ("" for a call of the user)
NoReply == [cmd |-> "", val |-> -1, at |-> ""]

Fresh ==
    [st |-> "idle", call |-> Frame(""), stack |-> <<>>, ret |-> None,
     exc |-> NoExc, calls |-> 0,
     took |-> FALSE,     \* the call has acquired the lock
     srq |-> -1,         \* argument of the last SSRQ command handed to
                         \* self.__conn.write
     spoll |-> -1,       \* its last serial poll
     gerr |-> -1,        \* its last GERR reply
     ngerr |-> 0,        \* GERR commands written (since the poll that counts)
     nwr |-> 0,          \* commands handed to self.__conn.write, up to one
     ntx |-> 0,          \* transport transactions, up to one
     within |-> "",      \* operation of another task, inside its locked
                         \* section, that a transaction of this call fell into
     asked |-> "",       \* command of the query whose reply was read last
     got |-> "",         \* command the device answered with that reply
     looperr |-> FALSE,  \* a poll of the waiting loop had the error bit
     first |-> "",       \* first command handed to self.__conn.write
     trig |-> <<>>,      \* trigger commands handed to it, in order
     pre |-> -1,         \* gdng when the first trigger was handed
     gdng |-> -1,        \* last GDNG reply acal read since its last trigger
     npass |-> 0,        \* self-tests of the call that returned normally
     second |-> "",      \* second command handed to self.__conn.write
     tail |-> 0,         \* how many of Epilogue the last commands that
                         \* connect or reset handed to self.__conn.write
                         \* make up
     last |-> "",        \* last command set_rs232_baud_rate handed to
                         \* self.__conn.write
     reads |-> 0,        \* transport reads since its last serial poll
     by |-> "",          \* the primitive that its last step completed
     timo |-> FALSE,     \* its last step was a wait of the transport that
                         \* timed out
     after |-> NoReply,  \* the GERR or GDNG reply it read in its last step
     behind |-> FALSE,   \* it waits for a lock that another task started
                         \* to wait for before
     queued |-> -1,      \* self-tests that the selftest_all of another
                         \* task had passed when this call started to wait
                         \* for the lock that selftest_all held
     amid |-> 0,         \* for connect: the lock that another task held
                         \* inside its locked section when connect was called
     prev |-> [fn |-> "", v |-> 0, ok |-> FALSE]]
                         \* the call before this one, when it was a setter:
                         \* its coroutine, its argument and whether it
                         \* returned normally

Cap(n) == IF n < 2 THEN n + 1 ELSE n

\* the operation of a task other than t that is between the first and the
\* last transport transaction of its locked section; "" without one
InFlight(t) ==
    LET U == {u \in Tasks \ {t} :
                /\ co[u].st = "run" /\ co[u].took /\ co[u].ntx > 0
                /\ co[u].stack[Len(co[u].stack)].aw # "release"}
    IN IF U = {} THEN "" ELSE co[CHOOSE u \in U : TRUE].call.fn

\* the record of task t once it performed a transport transaction
Transacts(t) ==
    [co[t] EXCEPT !.ntx = 1,
                  !.within = IF InFlight(t) # "" THEN InFlight(t) ELSE @]

Running(t) == co[t].st = "run"
Cur(t) == Top(co[t].stack)
Awaits(t, aw) == Running(t) /\ Cur(t).aw = aw

\* the commands that start a long operation of the device
Triggers == {"TSTD", "TSTA", "TSTH", "CALI"}

\* the command that the outcome r of a run hands to self.__conn.write; ""
\* when the run ends elsewhere
Hands(r) ==
    IF r.stack # <<>> /\ Top(r.stack).aw = "conn.write"
    THEN Top(r.stack).cmd ELSE ""

\* the commands that end connect()
Epilogue == <<"STRM 2", "SSEP 0", "SSRQ 0">>

\* n is the length of the longest prefix of Epilogue that the commands
\* written so far end with; the same once cmd is written after them
Matched(n, cmd) ==
    IF n < Len(Epilogue) /\ cmd = Epilogue[n + 1] THEN n + 1
    ELSE IF cmd = Epilogue[1] THEN 1
    ELSE 0

\* the record c of a task that ran up to its next await, or to the end of
\* its call, with outcome r
Suspends(c, r) ==
    [c EXCEPT !.stack = r.stack, !.ret = r.ret, !.exc = r.exc,
              !.st = IF r.stack = <<>> THEN "done" ELSE "run",
              !.nwr = IF r.stack # <<>> /\ Top(r.stack).aw = "conn.write"
                      THEN 1 ELSE @,
              !.srq = IF /\ r.stack # <<>> /\ Top(r.stack).aw = "conn.write"
                         /\ Top(r.stack).cmd \in SrqCommands
                      THEN SrqArg(Top(r.stack).cmd) ELSE @,
              !.first = IF @ = "" /\ Hands(r) # "" THEN Hands(r) ELSE @,
              !.second = IF @ = "" /\ c.first # "" /\ Hands(r) # ""
                         THEN Hands(r) ELSE @,
              !.trig = IF Hands(r) \in Triggers /\ Len(@) < 4
                       THEN Append(@, Hands(r)) ELSE @,
              !.pre = IF Hands(r) \in Triggers /\ c.trig = <<>>
                      THEN c.gdng ELSE @,
              !.gdng = IF Hands(r) \in Triggers THEN -1 ELSE @,
              !.tail = IF c.call.fn \in {"connect", "reset"} /\ Hands(r) # ""
                       THEN Matched(@, Hands(r)) ELSE @,
              !.last = IF c.call.fn = "set_rs232_baud_rate" /\ Hands(r) # ""
                       THEN Hands(r) ELSE @,
              !.by = IF c.stack # <<>> THEN Top(c.stack).aw ELSE "",
              !.timo = FALSE, !.after = NoReply]

\* the record c after it went on with instruction i
Resumed(c, i) == Suspends(c, Run(c.stack, i))

\* asyncio.Lock is fair: the record c of task t once it is suspended, in
\* which a task that starts to wait for a lock is behind the task that waits
\* for it already
Queues(t, c) ==
    IF c.stack # <<>> /\ Top(c.stack).aw = "acquire"
    THEN LET l == Top(c.stack).lk
         IN [c EXCEPT !.behind = \E u \in Tasks \ {t} :
                                    Awaits(u, "acquire") /\ Cur(u).lk = l,
                      !.queued = IF /\ l \in Locks
                                    /\ holder[l] \notin {NoTask, t}
                                    /\ co[holder[l]].call.fn = "selftest_all"
                                 THEN co[holder[l]].npass ELSE -1]
    ELSE c

\* task t, whose record is c after the step, goes on with instruction i;
\* when t was waiting for a lock, the task behind it is the first now
Resume(t, c, i) ==
    IF Awaits(t, "acquire")
    THEN co' = [u \in Tasks |->
                  IF u = t THEN Queues(t, Resumed(c, i))
                  ELSE IF Awaits(u, "acquire") /\ Cur(u).lk = Cur(t).lk
                  THEN [co[u] EXCEPT !.behind = FALSE]
                  ELSE co[u]]
    ELSE co' = [co EXCEPT ![t] = Queues(t, Resumed(c, i))]

\* the awaited primitive of t completed with value v
Completes(t, c, v) == Resume(t, c, Step(Cur(t), v))
\* the awaited primitive of t raised e
Fails(t, c, e) == Resume(t, c, Raise(e))

ConnectionError == Exc("ConnectionError", -1, "")

\* the environment may inject one more failure
MayFault == faults < MaxFaults
Fault == faults' = faults + 1
NoFault == faults' = faults

\* a transport call on a link that is down raises ConnectionError
LinkDown(t, c) == ~connected /\ Fails(t, c, ConnectionError) /\ NoFault
\* a transport call on a link that is up may raise it as well
LinkFails(t, c, E) ==
    connected /\ E.link /\ MayFault /\ Fails(t, c, ConnectionError) /\ Fault

\* self.__conn.write(cmd)
ConnWrite(t, E) ==
    /\ Awaits(t, "conn.write")
    /\ LET cmd == Cur(t).cmd
           c == Transacts(t)
           sent == [c EXCEPT !.ngerr = IF cmd = "GERR" THEN Cap(@) ELSE @]
       IN \/ LinkDown(t, c) /\ UNCHANGED dev
          \/ LinkFails(t, c, E) /\ UNCHANGED dev
          \/ /\ connected
             /\ dev' = Exec(dev, cmd)
             /\ Completes(t, sent, None)
             /\ NoFault
          \/ /\ connected /\ MayFault
             /\ \E d \in Rejected(dev, cmd, E) : dev' = d
             /\ Completes(t, sent, None)
             /\ Fault
    /\ UNCHANGED <<lock, holder, connected>>

\* is the frame below the top one a self-test waiting in its loop
InSelftestLoop(stack) ==
    /\ Len(stack) >= 2
    /\ Top(stack).fn = "wait_for_rqs"
    /\ Top(Pop(stack)).fn \in {"selftest_digital", "selftest_analog", "selftest_hv"}
    /\ Top(Pop(stack)).pc = "rqs"

\* is the frame below the top one acal waiting in its loop
InAcalLoop(stack) ==
    /\ Len(stack) >= 2
    /\ Top(stack).fn = "wait_for_rqs"
    /\ Top(Pop(stack)).fn = "acal"
    /\ Top(Pop(stack)).pc = "rqs"

\* self.serial_poll()
SerialPoll(t, E) ==
    /\ Awaits(t, "serial_poll")
    /\ LET c == Transacts(t) IN
          \/ LinkDown(t, c)
          \/ LinkFails(t, c, E)
          \/ /\ connected
             /\ \E p \in Polls(dev) :
                  LET hit == /\ InSelftestLoop(co[t].stack) \/ InAcalLoop(co[t].stack)
                             /\ HasFlag(p, ERROR_CONDITION)
                  IN Completes(t, [c EXCEPT !.spoll = p, !.reads = 0,
                                            !.looperr = @ \/ hit,
                                            !.ngerr = IF hit THEN 0 ELSE @],
                               <<p>>)
             /\ NoFault
    /\ UNCHANGED <<lock, holder, connected, dev>>

\* the reply v read on top of the stack, when get_error or get_state asked
\* for it: stack ends with <<caller, getter, query, read>>
Answer(stack, v) ==
    LET n == Len(stack) IN
    IF n >= 3 /\ stack[n - 2].fn \in {"get_error", "get_state"}
    THEN [cmd |-> stack[n - 1].cmd, val |-> v[1],
          at |-> IF n >= 4 THEN stack[n - 3].fn ELSE ""]
    ELSE NoReply

\* self.__conn.read(): the oldest reply of the output buffer; without one
\* the transport gives up waiting
ConnRead(t, E) ==
    /\ Awaits(t, "conn.read")
    /\ LET c == Transacts(t)
           below == Top(Pop(co[t].stack))
           asked == IF Len(co[t].stack) >= 2 /\ below.fn = "query" THEN below.cmd ELSE ""
           c2 == [c EXCEPT !.asked = asked, !.reads = Cap(@),
                           !.got = Head(dev.out).to,
                           !.gerr = IF asked = "GERR"
                                    THEN Head(dev.out).val[1] ELSE @,
                           !.gdng = IF asked = "GDNG" /\ co[t].call.fn = "acal"
                                    THEN Head(dev.out).val[1] ELSE @]
       IN \/ LinkDown(t, c) /\ UNCHANGED dev
          \/ LinkFails(t, c, E) /\ UNCHANGED dev
          \/ /\ connected /\ dev.out = <<>>
             /\ Fails(t, c, Exc("TimeoutError", -1, ""))
             /\ NoFault
             /\ UNCHANGED dev
          \/ /\ connected /\ dev.out # <<>>
             /\ dev' = [dev EXCEPT !.out = Tail(@)]
             /\ co' = [co EXCEPT ![t] =
                         [Resumed(c2, Step(Cur(t), Head(dev.out).val)) EXCEPT
                            !.after = Answer(co[t].stack, Head(dev.out).val)]]
             /\ NoFault
    /\ UNCHANGED <<lock, holder, connected>>

\* self.__conn.wait(RQS | TIMO): returns on a service request, or raises
\* asyncio.TimeoutError when none came in time
ConnWait(t, E) ==
    /\ Awaits(t, "conn.wait")
    /\ \/ LinkDown(t, co[t]) /\ UNCHANGED dev
       \/ LinkFails(t, co[t], E) /\ UNCHANGED dev
       \/ /\ connected
          /\ Completes(t, co[t], None)
          /\ NoFault
          /\ UNCHANGED dev
       \/ /\ connected
          /\ co' = [co EXCEPT ![t] =
                      [Resumed(co[t], Raise(Exc("TimeoutError", -1, ""))) EXCEPT
                         !.timo = TRUE]]
          /\ NoFault
          /\ UNCHANGED dev
       \/ /\ connected /\ MayFault
          /\ dev.err = 0
          /\ \E c \in E.polling : dev' = [dev EXCEPT !.err = c]
          /\ Completes(t, co[t], None)
          /\ Fault
    /\ UNCHANGED <<lock, holder, connected>>

\* asyncio.sleep
Sleep(t) ==
    /\ Awaits(t, "sleep")
    /\ Completes(t, co[t], None)
    /\ UNCHANGED <<lock, holder, connected, dev, faults>>

\* asyncio.Lock.acquire of async with
Acquire(t) ==
    /\ Awaits(t, "acquire")
    /\ holder[Cur(t).lk] = NoTask
    /\ ~co[t].behind
    /\ holder' = [holder EXCEPT ![Cur(t).lk] = t]
    /\ Completes(t, [co[t] EXCEPT !.took = TRUE], None)
    /\ UNCHANGED <<lock, connected, dev, faults>>

\* asyncio.Lock.release at the end of async with
Release(t) ==
    /\ Awaits(t, "release")
    /\ holder' = [holder EXCEPT ![Cur(t).lk] = NoTask]
    /\ LET passed == /\ Cur(t).fn \in {"selftest_digital", "selftest_analog",
                                      "selftest_hv"}
                     /\ Cur(t).pend = NoExc
       IN Completes(t, [co[t] EXCEPT !.npass = IF passed THEN @ + 1 ELSE @],
                    None)
    /\ UNCHANGED <<lock, connected, dev, faults>>

\* self.__conn.connect()
ConnConnect(t, E) ==
    /\ Awaits(t, "conn.connect")
    /\ \/ /\ E.link /\ MayFault
          /\ Fails(t, co[t], ConnectionError)
          /\ Fault
          /\ UNCHANGED connected
       \/ /\ connected' = TRUE
          /\ Completes(t, co[t], None)
          /\ NoFault
    /\ UNCHANGED <<lock, holder, dev>>

\* self.__conn.set_eot(False)
SetEot(t) ==
    /\ Awaits(t, "conn.set_eot")
    /\ Completes(t, co[t], None)
    /\ UNCHANGED <<lock, holder, connected, dev, faults>>

\* self.__conn.ibloc()
Ibloc(t, E) ==
    /\ Awaits(t, "conn.ibloc")
    /\ \/ LinkDown(t, co[t])
       \/ LinkFails(t, co[t], E)
       \/ connected /\ Completes(t, co[t], None) /\ NoFault
    /\ UNCHANGED <<lock, holder, connected, dev>>

\* self.__conn.disconnect(): the transport closes its link, whether or not
\* it was up
ConnDisconnect(t) ==
    /\ Awaits(t, "conn.disconnect")
    /\ connected' = FALSE
    /\ Completes(t, co[t], None)
    /\ UNCHANGED <<lock, holder, dev, faults>>

\* self.__conn.clear(): device clear; the device drops its buffers and
\* resets its settings
ConnClear(t, E) ==
    /\ Awaits(t, "conn.clear")
    /\ LET c == Transacts(t) IN
       \/ LinkDown(t, c) /\ UNCHANGED dev
       \/ LinkFails(t, c, E) /\ UNCHANGED dev
       \/ /\ connected
          /\ dev' = [dev EXCEPT !.state = RESETTING, !.err = 0, !.out = <<>>]
          /\ Completes(t, c, None)
          /\ NoFault
    /\ UNCHANGED <<lock, holder, connected>>

\* Task.cancel(): CancelledError is raised at the await t is suspended in
Cancel(t) ==
    /\ Running(t)
    /\ MayFault
    /\ Cur(t).aw # "release"
    /\ Fails(t, co[t], Exc("CancelledError", -1, ""))
    /\ Fault
    /\ UNCHANGED <<lock, holder, connected, dev>>

\* the coroutines that write a setting whose getter is modelled
Setters == {"set_voltage_limit", "set_rs232_baud_rate"}

\* the frames of c that are inside an async with block: past the acquire
Locked(c) ==
    {i \in DOMAIN c.stack :
        c.stack[i].lk # 0 /\ c.stack[i].pc \notin {"entry", "connect", "set_eot",
                                                   "acquire"}}

\* the lock that a task other than t holds inside its locked section; 0
\* without one
HeldByOther(t) ==
    LET L == {l \in Locks :
                \E u \in Tasks \ {t} :
                    /\ holder[l] = u /\ Running(u)
                    /\ \E i \in Locked(co[u]) : co[u].stack[i].lk = l}
    IN IF L = {} THEN 0 ELSE CHOOSE l \in L : TRUE

\* task t calls the public coroutine given by frame g
Begin(t, g) ==
    /\ ~Running(t)
    /\ lock' = IF g.fn = "connect" THEN lock + 1 ELSE lock
    /\ co' = [co EXCEPT ![t] = Queues(t,
                Suspends([Fresh EXCEPT !.call = g, !.calls = co[t].calls + 1,
                                       !.amid = IF g.fn = "connect"
                                                THEN HeldByOther(t) ELSE 0,
                                       !.prev = IF co[t].call.fn \in Setters
                                                THEN [fn |-> co[t].call.fn,
                                                      v |-> co[t].call.v,
                                                      ok |-> co[t].exc = NoExc]
                                                ELSE Fresh.prev],
                         Run(<<g>>, Step(g, None))))]
    /\ UNCHANGED <<holder, connected, dev, faults>>

\* one of the calls that the exploration grants each task
Invoke(t, g) == co[t].calls < MaxCalls /\ Begin(t, g)

\* the device finishes what it is busy with
DeviceIdle ==
    /\ dev.state # IDLE
    /\ dev' = [dev EXCEPT !.state = IDLE]
    /\ UNCHANGED <<lock, holder, connected, co, faults>>

\* the device finds a fault in what it is busy with
DeviceFault(E) ==
    /\ dev.state # IDLE
    /\ dev.err = 0
    /\ MayFault
    /\ \E c \in E.faults : dev' = [dev EXCEPT !.err = c]
    /\ Fault
    /\ UNCHANGED <<lock, holder, connected, co>>

\* the busy device passes through a state of E.states
DeviceWanders(E) ==
    /\ dev.state # IDLE
    /\ MayFault
    /\ \E s \in E.states \ {dev.state} : dev' = [dev EXCEPT !.state = s]
    /\ Fault
    /\ UNCHANGED <<lock, holder, connected, co>>

----------------------------------------------------------------------------
(* Specifications *)

\* commands a caller hands to write(): as long as the buffer limit, give or
\* take LenSlack, as str in ASCII, as str outside ASCII, or as bytes
UserCommands ==
    {[WithCmd("write", Filler(n), te) EXCEPT !.enc = enc] :
        n \in (BufferLimit - LenSlack)..(BufferLimit + LenSlack),
        te \in BOOLEAN, enc \in {"str", "bytes", "nonascii"}}

LongCalls ==
    {Frame("selftest_digital"), Frame("selftest_analog"), Frame("selftest_hv"),
     Frame("acal"), WithArg("set_rs232_baud_rate", 48000)}

SessionCalls ==
    {Frame("connect"), Frame("disconnect"), Frame("reset"),
     Frame("get_terminator"), Frame("get_output"),
     WithArg("set_rs232_baud_rate", 10000)}

PublicCalls == LongCalls \cup SessionCalls \cup UserCommands

StaleReply == [to |-> "", val |-> <<0>>]

Init ==
    /\ lock = 0
    /\ holder = [l \in Locks |-> NoTask]
    /\ connected = FALSE
    /\ \E s \in {IDLE, RESETTING}, e \in {0, UNKNOWN_COMMAND},
          o \in {<<>>, <<StaleReply>>} :
          dev = Device(s, e, o)
    /\ co = [t \in Tasks |-> Fresh]
    /\ faults = 0

Solo == {"A"}

Next ==
    \/ \E t \in Solo : \E g \in PublicCalls : Invoke(t, g)
    \/ \E t \in Solo : ConnWrite(t, Faulty)
    \/ \E t \in Solo : SerialPoll(t, Faulty)
    \/ \E t \in Solo : ConnRead(t, Faulty)
    \/ \E t \in Solo : ConnWait(t, Faulty)
    \/ \E t \in Solo : Sleep(t)
    \/ \E t \in Solo : Acquire(t)
    \/ \E t \in Solo : Release(t)
    \/ \E t \in Solo : ConnConnect(t, Faulty)
    \/ \E t \in Solo : SetEot(t)
    \/ \E t \in Solo : Ibloc(t, Faulty)
    \/ \E t \in Solo : ConnDisconnect(t)
    \/ \E t \in Solo : ConnClear(t, Faulty)
    \/ \E t \in Solo : Cancel(t)
    \/ DeviceIdle
    \/ DeviceFault(Faulty)

Spec == Init /\ [][Next]_vars

\* calls of two tasks that share the driver object of one device
SharedCalls ==
    {Frame("connect"), Frame("acal"), Frame("get_output"),
     WithCmd("query", "GTRM", TRUE)}

\* public calls made so far
RECURSIVE Total(_)
Total(S) ==
    IF S = {} THEN 0
    ELSE LET t == CHOOSE x \in S : TRUE IN co[t].calls + Total(S \ {t})

\* the tasks of Tasks call into one driver object; nothing fails, and as
\* the tasks are alike the one that calls first is named "A"
NextShared ==
    \/ /\ Total(Tasks) < MaxShared
       /\ \E t \in Tasks : \E g \in SharedCalls :
             (t = "A" \/ co["A"].calls > 0) /\ Invoke(t, g)
    \/ \E t \in Tasks : ConnWrite(t, Calm)
    \/ \E t \in Tasks : SerialPoll(t, Calm)
    \/ \E t \in Tasks : ConnRead(t, Calm)
    \/ \E t \in Tasks : ConnWait(t, Calm)
    \/ \E t \in Tasks : Sleep(t)
    \/ \E t \in Tasks : Acquire(t)
    \/ \E t \in Tasks : Release(t)
    \/ \E t \in Tasks : ConnConnect(t, Calm)
    \/ \E t \in Tasks : SetEot(t)
    \/ DeviceIdle

\* the device is idle, with nothing pending, when the driver is constructed
InitShared ==
    /\ Init
    /\ dev = Device(IDLE, 0, <<>>)

SpecShared == InitShared /\ [][NextShared]_vars

\* the operations that run for minutes, and the baud rates that are not in
\* the table: 1000 and 134 bit/s
LongRuns ==
    {Frame("connect"), Frame("disconnect"), Frame("reset"),
     Frame("acal"), Frame("selftest_all"), Frame("get_state"),
     WithArg("set_rs232_baud_rate", 10000),
     WithArg("set_rs232_baud_rate", 1340)}

NextLong ==
    \/ \E t \in Solo : \E g \in LongRuns : Invoke(t, g)
    \/ \E t \in Solo : ConnWrite(t, Faulty)
    \/ \E t \in Solo : SerialPoll(t, Faulty)
    \/ \E t \in Solo : ConnRead(t, Faulty)
    \/ \E t \in Solo : ConnWait(t, Harsh)
    \/ \E t \in Solo : Sleep(t)
    \/ \E t \in Solo : Acquire(t)
    \/ \E t \in Solo : Release(t)
    \/ \E t \in Solo : ConnConnect(t, Faulty)
    \/ \E t \in Solo : SetEot(t)
    \/ \E t \in Solo : Ibloc(t, Faulty)
    \/ \E t \in Solo : ConnDisconnect(t)
    \/ \E t \in Solo : ConnClear(t, Faulty)
    \/ \E t \in Solo : Cancel(t)
    \/ DeviceIdle
    \/ DeviceFault(Faulty)
    \/ DeviceWanders(Harsh)

SpecLong == Init /\ [][NextLong]_vars

\* the getters of the limits and of the calibration constants
\* the query of the twenty constants in one command: the one that
\* get_calibration_constants splits in two
AllConstants == WithCmd("query", GcalCommand(0, 19), TRUE)

LimitGetters == {Frame("get_voltage_limit"), Frame("get_calibration_constants")}

\* one task connects and then makes up to MaxSettings calls that read or
\* write the limits, on a device that answers every command and a link that
\* stays up
NextLimits ==
    \/ \E t \in Solo : co[t].calls = 0 /\ Begin(t, Frame("connect"))
    \/ \E t \in Solo : \E l \in VoltageLimits :
            co[t].calls \in 1..MaxSettings
                /\ Begin(t, WithArg("set_voltage_limit", l))
    \/ \E t \in Solo : \E l \in CurrentLimits :
            co[t].calls \in 1..MaxSettings
                /\ Begin(t, WithArg("set_current_limit", l))
    \/ \E t \in Solo : \E g \in LimitGetters :
            co[t].calls \in 1..MaxSettings /\ Begin(t, g)
    \/ \E t \in Solo : co[t].calls \in 1..MaxSettings /\ Begin(t, AllConstants)
    \/ \E t \in Solo : ConnWrite(t, Calm)
    \/ \E t \in Solo : SerialPoll(t, Calm)
    \/ \E t \in Solo : ConnRead(t, Calm)
    \/ \E t \in Solo : Sleep(t)
    \/ \E t \in Solo : Acquire(t)
    \/ \E t \in Solo : Release(t)
    \/ \E t \in Solo : ConnConnect(t, Calm)
    \/ \E t \in Solo : SetEot(t)

SpecLimits == InitShared /\ [][NextLimits]_vars

\* the outputs and the modes that the session asks for
Outputs == {Whole(10), Whole(1100), Whole(2000), Whole(-2000)}
ModeCalls ==
    {WithArg(fn, enabled) :
        fn \in {"set_internal_sense", "set_internal_guard"},
        enabled \in BOOLEAN}
SomeLimits ==
    {<<Whole(-10), Whole(10)>>, <<Whole(2000), NoValue>>,
     <<Whole(-10), Whole(2000)>>}
SomeCurrentLimits == {<<Whole(-1), Whole(1)>>, <<Whole(25), NoValue>>}

\* one task connects and then makes up to MaxSettings calls of the setters
\* that translate a refusal of the device, on a device that may refuse
NextSetters ==
    \/ \E t \in Solo : co[t].calls = 0 /\ Begin(t, Frame("connect"))
    \/ \E t \in Solo : \E l \in SomeLimits :
            co[t].calls \in 1..MaxSettings
                /\ Begin(t, WithArg("set_voltage_limit", l))
    \/ \E t \in Solo : \E l \in SomeCurrentLimits :
            co[t].calls \in 1..MaxSettings
                /\ Begin(t, WithArg("set_current_limit", l))
    \/ \E t \in Solo : \E x \in Outputs :
            co[t].calls \in 1..MaxSettings /\ Begin(t, WithArg("set_output", x))
    \/ \E t \in Solo : \E g \in ModeCalls :
            co[t].calls \in 1..MaxSettings /\ Begin(t, g)
    \/ \E t \in Solo : ConnWrite(t, Picky)
    \/ \E t \in Solo : SerialPoll(t, Picky)
    \/ \E t \in Solo : ConnRead(t, Picky)
    \/ \E t \in Solo : Sleep(t)
    \/ \E t \in Solo : Acquire(t)
    \/ \E t \in Solo : Release(t)
    \/ \E t \in Solo : ConnConnect(t, Picky)
    \/ \E t \in Solo : SetEot(t)

SpecSetters == InitShared /\ [][NextSetters]_vars

\* the operations that take the lock of the session
LockOps ==
    {Frame("reset"), Frame("get_terminator"), Frame("selftest_digital"),
     Frame("selftest_analog"), Frame("selftest_hv"), Frame("acal"),
     Frame("get_calibration_constants"),
     WithArg("set_rs232_baud_rate", 48000)}

\* the life of one session: a first call, which may be connect() or an
\* operation on the session as it was constructed; then disconnect(); then
\* up to MaxAfter operations on the session that was disconnected
NextSession ==
    \/ \E t \in Solo : \E g \in LockOps \cup {Frame("connect")} :
            co[t].calls = 0 /\ Begin(t, g)
    \/ \E t \in Solo : co[t].calls = 1 /\ Begin(t, Frame("disconnect"))
    \/ \E t \in Solo : \E g \in LockOps :
            co[t].calls \in 2..(MaxAfter + 1) /\ Begin(t, g)
    \/ \E t \in Solo : ConnWrite(t, Calm)
    \/ \E t \in Solo : SerialPoll(t, Calm)
    \/ \E t \in Solo : ConnRead(t, Calm)
    \/ \E t \in Solo : ConnWait(t, Calm)
    \/ \E t \in Solo : Sleep(t)
    \/ \E t \in Solo : Acquire(t)
    \/ \E t \in Solo : Release(t)
    \/ \E t \in Solo : ConnConnect(t, Calm)
    \/ \E t \in Solo : SetEot(t)
    \/ \E t \in Solo : Ibloc(t, Calm)
    \/ \E t \in Solo : ConnDisconnect(t)
    \/ \E t \in Solo : ConnClear(t, Calm)
    \/ DeviceIdle

SpecSession == Init /\ [][NextSession]_vars

\* two tasks on one session: "A" connects and calls one operation that
\* takes the lock, "B" calls get_terminator once "A" has called connect();
\* the transport fails, the device refuses and the tasks are cancelled
NextLocks ==
    \/ co["A"].calls = 0 /\ Begin("A", Frame("connect"))
    \/ \E g \in LockOps : co["A"].calls = 1 /\ Begin("A", g)
    \/ /\ co["A"].calls > 0 /\ co["B"].calls = 0
       /\ Begin("B", Frame("get_terminator"))
    \/ \E t \in Tasks : ConnWrite(t, Faulty)
    \/ \E t \in Tasks : SerialPoll(t, Faulty)
    \/ \E t \in Tasks : ConnRead(t, Faulty)
    \/ \E t \in Tasks : ConnWait(t, Faulty)
    \/ \E t \in Tasks : Sleep(t)
    \/ \E t \in Tasks : Acquire(t)
    \/ \E t \in Tasks : Release(t)
    \/ \E t \in Tasks : ConnConnect(t, Faulty)
    \/ \E t \in Tasks : SetEot(t)
    \/ \E t \in Tasks : ConnClear(t, Faulty)
    \/ \E t \in Tasks : Cancel(t)
    \/ DeviceIdle

SpecLocks == InitShared /\ [][NextLocks]_vars

\* a device that refuses commands and reports errors, on a transport that
\* does not fail
Balky == [Faulty EXCEPT !.link = FALSE]

\* the operations that wait for the lock while selftest_all runs
LockWaiters == {Frame("acal"), Frame("get_calibration_constants")}

\* two tasks on one session: "A" connects and calls selftest_all, "B" calls
\* acal or get_calibration_constants at any moment after that
NextPhases ==
    \/ co["A"].calls = 0 /\ Begin("A", Frame("connect"))
    \/ co["A"].calls = 1 /\ Begin("A", Frame("selftest_all"))
    \/ \E g \in LockWaiters :
          co["A"].calls = 2 /\ co["B"].calls = 0 /\ Begin("B", g)
    \/ \E t \in Tasks : ConnWrite(t, Balky)
    \/ \E t \in Tasks : SerialPoll(t, Balky)
    \/ \E t \in Tasks : ConnRead(t, Balky)
    \/ \E t \in Tasks : ConnWait(t, Balky)
    \/ \E t \in Tasks : Sleep(t)
    \/ \E t \in Tasks : Acquire(t)
    \/ \E t \in Tasks : Release(t)
    \/ \E t \in Tasks : ConnConnect(t, Balky)
    \/ \E t \in Tasks : SetEot(t)
    \/ DeviceIdle

SpecPhases == InitShared /\ [][NextPhases]_vars

\* the baud rate of the RS-232 interface, set and read
BaudCalls ==
    {WithArg("set_rs232_baud_rate", b) : b \in SeqRange(BAUD_RATES_AVAILABLE)}
        \cup {Frame("get_rs232_baud_rate")}

\* the same session with the baud rate calls; writing the rate keeps the
\* device busy for a while
NextBaud ==
    \/ \E t \in Solo : co[t].calls = 0 /\ Begin(t, Frame("connect"))
    \/ \E t \in Solo : \E g \in BaudCalls :
            co[t].calls \in 1..MaxSettings /\ Begin(t, g)
    \/ \E t \in Solo : ConnWrite(t, Calm)
    \/ \E t \in Solo : SerialPoll(t, Calm)
    \/ \E t \in Solo : ConnRead(t, Calm)
    \/ \E t \in Solo : ConnWait(t, Calm)
    \/ \E t \in Solo : Sleep(t)
    \/ \E t \in Solo : Acquire(t)
    \/ \E t \in Solo : Release(t)
    \/ \E t \in Solo : ConnConnect(t, Calm)
    \/ \E t \in Solo : SetEot(t)
    \/ DeviceIdle

SpecBaud == InitShared /\ [][NextBaud]_vars

----------------------------------------------------------------------------
(* Clean-up of the SRQ mask *)

MaskOps ==
    {"selftest_digital", "selftest_analog", "selftest_hv", "acal",
     "set_rs232_baud_rate"}

\* C1: a long operation that took the lock and handed an SRQ-mask command
\* to the transport has handed SSRQ 0 as the last of them when it is over,
\* however it ended
C1_MaskResetOnExit ==
    \A t \in Tasks :
        (co[t].st = "done" /\ co[t].call.fn \in MaskOps /\ co[t].took
            /\ co[t].srq # -1)
        => co[t].srq = SRQ_NONE

\* C2: while no task holds the lock the device's SRQ mask is NONE; stated
\* for a session that has called nothing but connect(), once
C2_MaskNoneWhenUnlocked ==
    (/\ \A l \in Locks : holder[l] = NoTask
     /\ \A t \in Tasks : co[t].calls <= 1 /\ co[t].call.fn \in {"", "connect"})
    => dev.mask = SRQ_NONE

----------------------------------------------------------------------------
(* The lock *)

\* C3: no transport transaction of a task inside its locked section falls
\* between the first and the last transaction of another task's locked
\* section
C3_OneLockedSection ==
    \A t \in Tasks : co[t].took => co[t].within = ""

\* C4: no transport transaction of get_output falls inside another task's
\* auto-calibration
C4_AccessorsHoldLock ==
    \A t \in Tasks : co[t].call.fn = "get_output" => co[t].within # "acal"

\* C5: the reply a query reads is the device's reply to the command that
\* query wrote
C5_QueryAtomic ==
    \A t \in Tasks : co[t].asked # "" => co[t].got = co[t].asked

----------------------------------------------------------------------------
(* Framing and error handling *)

Over(t) == co[t].st = "done"
Raised(t, type) == Over(t) /\ co[t].exc.type = type
\* exceptions that come from the transport or from the event loop
Outside == {"ConnectionError", "TimeoutError", "CancelledError"}

\* C6: write() hands a command that can be encoded to the transport iff it
\* is at most 127 bytes long; a longer one fails with the size error, and
\* nothing is written, polled or read
C6_SizeLimit ==
    \A t \in Tasks :
        (co[t].call.fn = "write" /\ co[t].st # "idle"
            /\ co[t].call.enc # "nonascii")
        => IF Len(co[t].call.cmd) <= 127
           THEN co[t].nwr = 1
           ELSE /\ Raised(t, "ValueError") /\ co[t].exc.msg = "size"
                /\ co[t].nwr = 0 /\ co[t].ntx = 0

C6_Witness ==
    \E t \in Tasks :
        /\ co[t].call.fn = "write" /\ Len(co[t].call.cmd) = 128
        /\ Raised(t, "ValueError") /\ co[t].exc.msg = "size"

\* C7: write(cmd, test_error=True) whose serial poll carried the
\* error-condition bit and that read the code with GERR fails with
\* DeviceError carrying that code; without the bit it issues no GERR and,
\* unless it is cancelled, returns normally
C7_DeviceErrorOnErrorBit ==
    \A t \in Tasks :
        (co[t].call.fn = "write" /\ co[t].call.te /\ Over(t)
            /\ co[t].spoll # -1)
        => IF HasFlag(co[t].spoll, ERROR_CONDITION)
           THEN co[t].gerr # -1 =>
                    Raised(t, "DeviceError") /\ co[t].exc.code = co[t].gerr
           ELSE /\ co[t].ngerr = 0
                /\ co[t].exc.type \notin Outside => co[t].exc = NoExc

\* C8: disconnect() that is not cancelled returns normally, with the
\* transport torn down: before connect(), after a failed connect() and when
\* called again
C8_DisconnectNeverRaises ==
    \A t \in Tasks :
        (co[t].call.fn = "disconnect" /\ Over(t) /\ ~Raised(t, "CancelledError"))
        => co[t].exc = NoExc /\ ~connected

C8_Witness ==
    \E t \in Tasks :
        /\ co[t].call.fn = "disconnect" /\ Over(t) /\ co[t].calls = 1
        /\ co[t].exc = NoExc /\ lock = 0

SelfTests == {"selftest_digital", "selftest_analog", "selftest_hv"}

\* a self-test is over whose loop polled the error-condition bit and in
\* which neither the transport failed nor a cancellation struck
FaultFound(t) ==
    /\ co[t].call.fn \in SelfTests /\ Over(t) /\ co[t].looperr
    /\ co[t].exc.type \notin Outside /\ co[t].exc.ctx \notin Outside

\* C9 as claimed: such a self-test, when the reply to its GERR is a
\* self-test fault code, ends with SelftestError, never with a normal return
\* or a DeviceError
C9_AlwaysSelftestError ==
    \A t \in Tasks :
        (FaultFound(t) /\ "ValueError" \notin {co[t].exc.type, co[t].exc.ctx})
        => Raised(t, "SelftestError")

\* C9: such a self-test never returns normally; it raises SelftestError with
\* the code its single GERR read, or ValueError when what it read is no
\* self-test fault code, unless the set_srq_mask(NONE) of the finally clause
\* fails, whose exception then has the other one as its context
C9_SelftestErrorOrCleanupError ==
    \A t \in Tasks :
        FaultFound(t) =>
            /\ co[t].exc # NoExc
            /\ \/ /\ Raised(t, "SelftestError")
                  /\ co[t].gerr \in SelfTestErrorCode
                  /\ co[t].exc.code = co[t].gerr /\ co[t].ngerr = 1
               \/ /\ Raised(t, "ValueError")
                  /\ co[t].gerr \notin SelfTestErrorCode
                  /\ co[t].exc.code = co[t].gerr /\ co[t].ngerr = 1
               \/ co[t].exc.ctx \in {"SelftestError", "ValueError"}

C9_Witness ==
    \E t \in Tasks :
        /\ FaultFound(t) /\ Raised(t, "SelftestError")
        /\ co[t].exc.code = MAIN_CONTROL_FAULT_CHECK_MAIN_MEMORY

----------------------------------------------------------------------------
(* Termination of the self-tests *)

FairCalls ==
    {Frame("connect"), Frame("selftest_digital"), Frame("selftest_analog"),
     Frame("selftest_hv")}

\* one task runs the self-tests on a device and a transport that do not fail
NextFair ==
    \/ \E t \in Solo : \E g \in FairCalls : Invoke(t, g)
    \/ \E t \in Solo : ConnWrite(t, Calm)
    \/ \E t \in Solo : SerialPoll(t, Calm)
    \/ \E t \in Solo : ConnRead(t, Calm)
    \/ \E t \in Solo : ConnWait(t, Calm)
    \/ \E t \in Solo : Sleep(t)
    \/ \E t \in Solo : Acquire(t)
    \/ \E t \in Solo : Release(t)
    \/ \E t \in Solo : ConnConnect(t, Calm)
    \/ \E t \in Solo : SetEot(t)
    \/ DeviceIdle

\* what the event loop and the transport do for a suspended task
Awaited(t) ==
    \/ ConnWrite(t, Calm) \/ SerialPoll(t, Calm) \/ ConnRead(t, Calm)
    \/ ConnWait(t, Calm) \/ Sleep(t) \/ Acquire(t) \/ Release(t)
    \/ ConnConnect(t, Calm) \/ SetEot(t)

\* every await of the transport and of the event loop completes, and the
\* device finishes what it is busy with. A step of Awaited(t) is possible
\* exactly when t is suspended: one task never waits for its own lock
SpecFair ==
    /\ Init
    /\ [][NextFair]_vars
    /\ \A t \in Solo : []<>(~Running(t)) \/ []<><<Awaited(t)>>_vars
    /\ WF_vars(DeviceIdle)

\* the frame of the self-test that task t runs is at label pc
SelfTestAt(t, pc) ==
    /\ Running(t) /\ co[t].call.fn \in SelfTests
    /\ co[t].stack[1].pc = pc

Passed(t) == co[t].call.fn \in SelfTests /\ Over(t) /\ co[t].exc = NoExc

\* C10 as claimed: a self-test whose trigger was accepted, on a device with
\* no error that goes through its transient states to idle, returns without
\* raising, whatever the other bits of the serial polls
C10_AlwaysReturns ==
    \A t \in Solo :
        (SelfTestAt(t, "rqs") /\ dev.err = 0 /\ dev.out = <<>>) ~> Passed(t)

\* C10: such a self-test returns without raising once a serial poll of its
\* loop carries the state-changing bit while the device is idle
C10_ReturnsOnceStateChangeIsPolled ==
    \A t \in Solo :
        (SelfTestAt(t, "state") /\ dev.state = IDLE /\ dev.err = 0
            /\ dev.out = <<>>) ~> Passed(t)

C10_Witness ==
    \E t \in Solo : Passed(t) /\ co[t].srq = SRQ_NONE /\ dev.state = IDLE

----------------------------------------------------------------------------
\* an acal whose loop polled the error bit, whose GERR after that poll was
\* answered with a code other than the handshake error, and which no
\* transport failure or cancellation struck
AcalFault(t) ==
    /\ co[t].call.fn = "acal" /\ Over(t) /\ co[t].looperr
    /\ co[t].ngerr = 1 /\ co[t].gerr \notin {-1, GPIB_HANDSHAKE_ERROR}
    /\ co[t].exc.type \notin Outside /\ co[t].exc.ctx \notin Outside

C12_AcalSkeleton ==
    \A t \in Tasks :
        co[t].call.fn = "acal" =>
            /\ co[t].nwr > 0 => co[t].took /\ co[t].first = "SSRQ 4"
            /\ co[t].trig \in {<<>>, <<"CALI">>}
            /\ co[t].trig # <<>> => co[t].pre = IDLE
            /\ (Over(t) /\ co[t].exc = NoExc)
                    => co[t].trig = <<"CALI">> /\ co[t].gdng = IDLE
            /\ (Over(t) /\ co[t].trig # <<>>) => co[t].srq = SRQ_NONE

\* the transport raised in the loop of an acal, after a GDNG reply was read
\* there
C12_Witness ==
    \E t \in Tasks :
        /\ co[t].call.fn = "acal" /\ Raised(t, "ConnectionError")
        /\ co[t].trig = <<"CALI">> /\ co[t].gdng = CALIBRATING_ADC
        /\ co[t].srq = SRQ_NONE

----------------------------------------------------------------------------
Phases == <<"TSTD", "TSTA", "TSTH">>

\* C13: selftest_all hands the triggers TSTD, TSTA, TSTH in that order, each
\* one only after every earlier phase returned normally; it returns normally
\* exactly when all three phases did, and otherwise ends with the exception
\* of the phase that failed, after which no trigger is handed
C13_SelftestAllStopsAtFirstFailure ==
    \A t \in Tasks :
        co[t].call.fn = "selftest_all" =>
            /\ Len(co[t].trig) <= 3
            /\ co[t].trig = SubSeq(Phases, 1, Len(co[t].trig))
            /\ Len(co[t].trig) <= co[t].npass + 1
            /\ Over(t) => (co[t].exc = NoExc <=> co[t].npass = 3)
            /\ (Over(t) /\ co[t].exc = NoExc) => co[t].trig = Phases

\* the second phase of a selftest_all failed after the first one passed
C13_Witness ==
    \E t \in Tasks :
        /\ co[t].call.fn = "selftest_all" /\ Over(t)
        /\ co[t].npass = 1 /\ co[t].trig = <<"TSTD", "TSTA">>
        /\ co[t].exc # NoExc

----------------------------------------------------------------------------
(* Validation of arguments *)

\* C17: set_rs232_baud_rate with a value that is not in the table of baud
\* rates is over at once with the ValueError of the validation: it has not
\* acquired the lock and has performed no transport operation, whether the
\* session is connected, disconnected or was never connected
C17_InvalidBaudRateNoIo ==
    \A t \in Tasks :
        (/\ co[t].call.fn = "set_rs232_baud_rate" /\ co[t].st # "idle"
         /\ co[t].call.v \notin SeqRange(BAUD_RATES_AVAILABLE))
        => /\ Raised(t, "ValueError") /\ co[t].exc.msg = "baud"
           /\ ~co[t].took /\ co[t].nwr = 0 /\ co[t].ntx = 0
           /\ co[t].first = ""

\* the call was made on a connected session
C17_Witness ==
    \E t \in Tasks :
        /\ co[t].call.fn = "set_rs232_baud_rate" /\ co[t].call.v = 1340
        /\ Raised(t, "ValueError") /\ connected /\ lock > 0

\* a call of the limit setter fn by task t
Sets(t, fn) == co[t].call.fn = fn /\ co[t].st # "idle"
\* abs(x) > max
Exceeds(x, max) == x # NoValue /\ ~MagLe(x, Whole(max))
\* the call of t ended with the ValueError of its validation and handed
\* nothing to the transport
FailedValidation(t) ==
    /\ Raised(t, "ValueError")
    /\ co[t].nwr = 0 /\ co[t].ntx = 0 /\ co[t].first = ""

\* C14: set_voltage_limit with a value or a value2 whose magnitude exceeds
\* 1500 fails with ValueError before any bus transaction: no SVLM command
\* is handed to the transport
C14_VoltageRangeChecked ==
    \A t \in Tasks :
        (/\ Sets(t, "set_voltage_limit")
         /\ Exceeds(co[t].call.v[1], 1500) \/ Exceeds(co[t].call.v[2], 1500))
        => FailedValidation(t)

\* C15: set_current_limit with a value or a value2 whose magnitude exceeds
\* 20 fails with ValueError before any write: no SCLM command is handed to
\* the transport
C15_CurrentRangeChecked ==
    \A t \in Tasks :
        (/\ Sets(t, "set_current_limit")
         /\ Exceeds(co[t].call.v[1], 20) \/ Exceeds(co[t].call.v[2], 20))
        => FailedValidation(t)

\* value and value2 are both given and within max
InRange(l, max) ==
    l[2] # NoValue /\ MagLe(l[1], Whole(max)) /\ MagLe(l[2], Whole(max))

\* C16: set_voltage_limit with two values within range fails validation
\* with ValueError, nothing handed to the transport, when both have the same
\* sign; when one is >= 0 and the other <= 0 it hands the SVLM command for
\* value2 to the transport at once and, on a device that accepts both, the
\* one for value after it, and returns normally
C16_SignsChecked ==
    \A t \in Tasks :
        (Sets(t, "set_voltage_limit") /\ InRange(co[t].call.v, 1500)) =>
            LET value == co[t].call.v[1]
                value2 == co[t].call.v[2]
            IN IF ~IsZero(value) /\ ~IsZero(value2) /\ value.neg = value2.neg
               THEN FailedValidation(t) /\ co[t].exc.msg = "limit"
               ELSE /\ co[t].first = "SVLM " \o Join(limit_numeric(value2))
                    /\ Over(t) =>
                          /\ co[t].exc = NoExc
                          /\ co[t].second = "SVLM " \o Join(limit_numeric(value))

\* set_voltage_limit(0, 10) has written both commands and returned
C16_Witness ==
    \E t \in Tasks :
        /\ Sets(t, "set_voltage_limit") /\ Over(t) /\ co[t].exc = NoExc
        /\ co[t].call.v = <<Whole(0), Whole(10)>>
        /\ co[t].first = "SVLM 10.000000" /\ co[t].second = "SVLM 0.00000000"

----------------------------------------------------------------------------
(* Round trips *)

\* C18: set_rs232_baud_rate(v), for each v of the table, hands SBDR i to the
\* transport after it took the lock, i being the position of v in the table
\* counted from 0; get_rs232_baud_rate returns the entry of the table at the
\* position the device replies to GBDR; and a get that follows a set(v)
\* which returned normally returns v
C18_BaudRateRoundTrip ==
    \A t \in Tasks :
        /\ (Sets(t, "set_rs232_baud_rate") /\ co[t].first # "") =>
              \E i \in 0..12 :
                  /\ BAUD_RATES_AVAILABLE[i + 1] = co[t].call.v
                  /\ co[t].first = "SBDR " \o FormatD(i)
                  /\ Over(t) => dev.baud = i
        /\ (Sets(t, "get_rs232_baud_rate") /\ Over(t) /\ co[t].exc = NoExc) =>
              /\ co[t].ret = <<BAUD_RATES_AVAILABLE[dev.baud + 1]>>
              /\ (co[t].prev.fn = "set_rs232_baud_rate" /\ co[t].prev.ok)
                    => co[t].ret = <<co[t].prev.v>>

\* 4800 bit/s was set and read back
C18_Witness ==
    \E t \in Tasks :
        /\ Sets(t, "get_rs232_baud_rate") /\ Over(t)
        /\ co[t].prev = [fn |-> "set_rs232_baud_rate", v |-> 48000, ok |-> TRUE]
        /\ co[t].ret = <<48000>>

\* C19: get_voltage_limit that follows a set_voltage_limit(n, p) with
\* n < 0 <= p within range, which returned normally, returns (n, p); the
\* device keeps the last non-negative SVLM value as its positive limit, the
\* last negative one as its negative limit, and answers GVLM with the
\* positive limit first
C19_VoltageLimitRoundTrip ==
    \A t \in Tasks :
        (/\ Sets(t, "get_voltage_limit") /\ Over(t) /\ co[t].exc = NoExc
         /\ co[t].prev.fn = "set_voltage_limit" /\ co[t].prev.ok
         /\ InRange(co[t].prev.v, 1500)
         /\ co[t].prev.v[1].neg /\ ~co[t].prev.v[2].neg)
        => co[t].ret = co[t].prev.v

----------------------------------------------------------------------------
(* Calibration constants *)

\* the fields of the record by the number of the reply field, from 0
FieldAt ==
    <<"gain_10V", "gain_20V", "gain_250V", "gain_1000V", "gain_2V", "gain_02V",
      "offset_10V_pos", "offset_20V_pos", "offset_250V_pos", "offset_1000V_pos",
      "offset_10V_neg", "offset_20V_neg", "offset_250V_neg", "offset_1000V_neg",
      "gain_shift_10V", "gain_shift_20V", "gain_shift_250V", "gain_shift_1000V",
      "resolution_ratio", "adc_gain">>

\* C20: get_calibration_constants queries GCAL 0..9, then GCAL 10..19, and
\* returns a record of twenty fields in which the field listed at position i
\* is the value of reply field i of the two replies taken together: every
\* field of the record is one reply field and every reply field is used once
C20_ConstantsByPosition ==
    \A t \in Tasks :
        (Sets(t, "get_calibration_constants") /\ Over(t) /\ co[t].exc = NoExc)
        => /\ co[t].took
           /\ co[t].first = GcalCommand(0, 9) /\ co[t].second = GcalCommand(10, 19)
           /\ DOMAIN co[t].ret[1] = SeqRange(FieldAt)
           /\ Cardinality(SeqRange(FieldAt)) = 20
           /\ \A i \in 0..19 :
                 co[t].ret[1][FieldAt[i + 1]] = CalibrationConstant(i)
           /\ \A i, j \in 0..19 :
                 co[t].ret[1][FieldAt[i + 1]] = CalibrationConstant(j) => i = j

\* the record was returned, with reply field 5 as the gain of the 0.2 V
\* range and reply field 19 as the gain of the ADC
C20_Witness ==
    \E t \in Tasks :
        /\ Sets(t, "get_calibration_constants") /\ Over(t) /\ co[t].exc = NoExc
        /\ co[t].ret[1].gain_02V = CalibrationConstant(5)
        /\ co[t].ret[1].adc_gain = CalibrationConstant(19)

\* the operations that wait for a service request of the device
Waiters ==
    {"wait_for_idle", "selftest_digital", "selftest_analog", "selftest_hv",
     "acal"}

\* the record c of a task is about to poll in the wait-for-service step of
\* an operation that is still at the place where it called that step
PollsNext(c) ==
    /\ c.st = "run" /\ c.exc = NoExc
    /\ Len(c.stack) >= 2
    /\ Top(c.stack).fn = "wait_for_rqs" /\ Top(c.stack).aw = "serial_poll"
    /\ Top(Pop(c.stack)).fn \in Waiters
    /\ Top(Pop(c.stack)).pc = "rqs"

\* the record c of a task goes on: it is suspended at an await and nothing
\* is being raised through its stack
GoesOn(c) ==
    /\ c.st = "run" /\ c.exc = NoExc
    /\ \A i \in 1..Len(c.stack) : c.stack[i].pend = NoExc

\* C23: a wait for a service request that times out does not fail the
\* wait-for-service step: the step goes to its serial poll with the
\* enclosing operation (wait_for_idle, a self-test loop, the acal loop)
\* still where it called the step, and once that poll is done on a working
\* link the operation goes on to its next await instead of raising
C23_TimeoutIsNotFailure ==
    [][\A t \in Tasks :
         /\ co'[t].timo => PollsNext(co'[t])
         /\ (co[t].timo /\ co'[t] # co[t] /\ connected /\ faults' = faults)
                => GoesOn(co'[t])]_vars

\* a wait of the acal loop timed out
C23_Witness ==
    \E t \in Tasks :
        /\ co[t].timo
        /\ co[t].call.fn = "acal" /\ Top(Pop(co[t].stack)).fn = "acal"

\* the exception of the given type and code is on its way out of the call
\* of record c: the call ended with it, or a frame holds it while it cleans up
Raising(c, type, code) ==
    IF c.st = "done" THEN c.exc.type = type /\ c.exc.code = code
    ELSE \E i \in 1..Len(c.stack) :
            c.stack[i].pend.type = type /\ c.stack[i].pend.code = code

\* C24: when the wait-for-service step with raise-on-error (wait_for_idle,
\* the acal loop) has read the GERR reply after a poll with the error bit,
\* the handshake error 152 lets the operation go on to its next await with
\* nothing raised, and every other code of ErrorCode ends the operation with
\* DeviceError carrying that code
C24_HandshakeOnlyLogged ==
    \A t \in Tasks :
        LET a == co[t].after IN
        (a.cmd = "GERR" /\ a.at = "wait_for_rqs") =>
            /\ a.val = GPIB_HANDSHAKE_ERROR =>
                  /\ GoesOn(co[t])
                  /\ Cur(t).aw = "conn.write" /\ Cur(t).cmd = "GDNG"
            /\ a.val \in ErrorCode \ {GPIB_HANDSHAKE_ERROR} =>
                  Raising(co[t], "DeviceError", a.val)

\* the acal loop read 152 and goes on
C24_Witness ==
    \E t \in Tasks :
        /\ co[t].after = [cmd |-> "GERR", val |-> GPIB_HANDSHAKE_ERROR,
                          at |-> "wait_for_rqs"]
        /\ co[t].call.fn = "acal" /\ co[t].trig # <<>>

\* the acal loop read another general error code
C24_WitnessOther ==
    \E t \in Tasks :
        /\ co[t].after = [cmd |-> "GERR", val |-> BOOST_INTERFACE_CURRENT_TRIP,
                          at |-> "wait_for_rqs"]
        /\ co[t].call.fn = "acal" /\ co[t].trig # <<>>

\* the operations with a waiting loop of their own
Loops == {"selftest_digital", "selftest_analog", "selftest_hv", "acal"}

\* C25: in the self-test loops and the acal loop a GDNG reply that is a
\* state code, but neither IDLE nor one of the states the operation expects,
\* ends nothing: nothing is raised, the operation has not returned, and it
\* is suspended at the next wait for a service request of its loop
C25_InvalidStateGoesOn ==
    \A t \in Tasks :
        LET a == co[t].after IN
        (/\ a.cmd = "GDNG" /\ a.at \in Loops
         /\ a.val \in DeviceState \ LegalStates(a.at)) =>
            /\ GoesOn(co[t])
            /\ Cur(t).fn = "wait_for_rqs" /\ Cur(t).aw = "conn.wait"
            /\ Top(Pop(co[t].stack)).fn = a.at
            /\ Top(Pop(co[t].stack)).pc = "rqs"

\* the acal loop and a self-test loop read PRINTING
C25_Witness ==
    \E t \in Tasks :
        co[t].after = [cmd |-> "GDNG", val |-> PRINTING, at |-> "acal"]

C25_WitnessSelftest ==
    \E t \in Tasks :
        co[t].after = [cmd |-> "GDNG", val |-> PRINTING, at |-> "selftest_digital"]

\* C26: a GDNG reply that is a state code is what get_state returns: a call
\* of the user returns it, and an operation that asked goes on; any other
\* reply raises ValueError carrying the number, which ends the call of the
\* user and ends the operation that asked instead of being asked again
C26_StateDecoded ==
    \A t \in Tasks :
        LET a == co[t].after IN
        a.cmd = "GDNG" =>
            /\ (a.val \in DeviceState /\ a.at = "") =>
                  /\ co[t].st = "done" /\ co[t].exc = NoExc
                  /\ co[t].ret = <<a.val>>
            /\ (a.val \in DeviceState /\ a.at # "") => GoesOn(co[t])
            /\ a.val \notin DeviceState =>
                  /\ Raising(co[t], "ValueError", a.val)
                  /\ co[t].ret = None
                  /\ ~(Running(t) /\ Cur(t).aw \in {"conn.wait", "conn.read"})

\* get_state of the user and the acal loop read a number that is no state
C26_Witness ==
    /\ RESETTING + 1 \notin DeviceState
    /\ \E t \in Tasks :
        co[t].after = [cmd |-> "GDNG", val |-> RESETTING + 1, at |-> ""]

C26_WitnessLoop ==
    \E t \in Tasks :
        co[t].after = [cmd |-> "GDNG", val |-> RESETTING + 1, at |-> "acal"]

\* get_state of the user returned a state
C26_WitnessState ==
    \E t \in Tasks :
        /\ co[t].after = [cmd |-> "GDNG", val |-> RESETTING, at |-> ""]
        /\ co[t].ret = <<RESETTING>>

\* C21: a connect() that returns normally handed STRM 2, SSEP 0 and SSRQ 0
\* (Epilogue) to the transport as its last three commands, in this order; it holds the
\* lock whenever it hands a command; and when it hands SSEP 0 or SSRQ 0 its
\* last serial poll had the state-changing bit clear
C21_ConnectEpilogue ==
    \A t \in Tasks :
        co[t].call.fn = "connect" =>
            /\ (Over(t) /\ co[t].exc = NoExc) =>
                  co[t].tail = Len(Epilogue)
            /\ Awaits(t, "conn.write") =>
                  /\ co[t].took /\ holder[co[t].stack[1].lk] = t
                  /\ Cur(t).cmd \in {"SSEP 0", "SSRQ 0"} =>
                        ~HasFlag(co[t].spoll, DOING_STATE_CHANGE)

\* connect() returned normally
C21_Witness ==
    \E t \in Tasks :
        /\ co[t].call.fn = "connect" /\ Over(t) /\ co[t].exc = NoExc
        /\ co[t].tail = Len(Epilogue)

\* C22: after the GERR query that connect issues for a stale error, connect
\* goes on with the GDNG query whatever the code was: nothing is raised and
\* only one GERR was written
C22_StaleCodeDiscarded ==
    \A t \in Tasks :
        LET a == co[t].after IN
        (a.cmd = "GERR" /\ a.at = "connect") =>
            /\ GoesOn(co[t])
            /\ co[t].stack[1].pc = "state"
            /\ Cur(t).aw = "conn.write" /\ Cur(t).cmd = "GDNG"
            /\ co[t].ngerr = 1

\* connect read a stale code that is a self-test code only
C22_Witness ==
    \E t \in Tasks :
        co[t].after = [cmd |-> "GERR", at |-> "connect",
                       val |-> MAIN_CONTROL_FAULT_CHECK_MAIN_MEMORY]

\* connect read a stale general code
C22_WitnessGeneral ==
    \E t \in Tasks :
        co[t].after = [cmd |-> "GERR", at |-> "connect",
                       val |-> UNKNOWN_COMMAND]

\* the stack ends with a write() that asked for the error code and the
\* frames of that query: <<write, get_error, query, top>>
ErrorQueryOf(stack, top) ==
    LET n == Len(stack) IN
    /\ n >= 4
    /\ stack[n].fn = top
    /\ stack[n - 1].fn = "query" /\ stack[n - 1].cmd = "GERR"
    /\ stack[n - 2].fn = "get_error"
    /\ stack[n - 3].fn = "write" /\ stack[n - 3].te

\* C30: when write(cmd, test_error=True) hands GERR to the transport, its
\* serial poll had the error bit and the task has read since that poll once
\* if the poll had the message-ready bit and not at all otherwise; the GERR
\* command is written without error check and its reply is read in the very
\* next step; and once the reply is read the write ends with the decoded
\* error, so that GERR is not asked again
C30_DrainThenGerr ==
    \A t \in Tasks :
        /\ (Running(t) /\ ErrorQueryOf(co[t].stack, "write")
                /\ Cur(t).aw = "conn.write") =>
              /\ HasFlag(co[t].spoll, ERROR_CONDITION)
              /\ co[t].reads = IF HasFlag(co[t].spoll, MSG_RDY) THEN 1 ELSE 0
              /\ co[t].by = IF HasFlag(co[t].spoll, MSG_RDY)
                            THEN "conn.read" ELSE "serial_poll"
              /\ ~Cur(t).te
        /\ (Running(t) /\ ErrorQueryOf(co[t].stack, "read")) =>
              co[t].by = "conn.write"
        /\ (co[t].after.cmd = "GERR" /\ co[t].after.at = "write") =>
              \/ Raising(co[t], "DeviceError", co[t].after.val)
              \/ Raising(co[t], "ValueError", co[t].after.val)

\* write() of the user hands GERR over after a poll with both bits
C30_Witness ==
    \E t \in Tasks :
        /\ co[t].call.fn = "write"
        /\ Running(t) /\ ErrorQueryOf(co[t].stack, "write")
        /\ Cur(t).aw = "conn.write"
        /\ HasFlag(co[t].spoll, MSG_RDY) /\ co[t].reads = 1

\* and after a poll with the error bit only
C30_WitnessNoMessage ==
    \E t \in Tasks :
        /\ co[t].call.fn = "write"
        /\ Running(t) /\ ErrorQueryOf(co[t].stack, "write")
        /\ Cur(t).aw = "conn.write"
        /\ ~HasFlag(co[t].spoll, MSG_RDY) /\ co[t].reads = 0

\* the code that each setter takes for a bad argument, and the exception it
\* raises instead
Translated ==
    [set_voltage_limit |-> [code |-> LIMIT_OUT_OF_RANGE, type |-> "ValueError"],
     set_current_limit |-> [code |-> LIMIT_OUT_OF_RANGE, type |-> "ValueError"],
     set_output |-> [code |-> OUTPUT_OUTSIDE_LIMITS, type |-> "ValueError"],
     set_internal_sense |-> [code |-> INVALID_SENSE_MODE, type |-> "TypeError"],
     set_internal_guard |-> [code |-> INVALID_GUARD_MODE, type |-> "TypeError"]]

\* C27: when a write of a setter found the error bit and GERR answered a
\* code of ErrorCode, the setter ends with ValueError (limits, output) or
\* TypeError (sense, guard) if the code is the one it looks for, and with
\* DeviceError carrying the code for every other code
C27_RejectionsTranslated ==
    \A t \in Tasks :
        (/\ co[t].call.fn \in DOMAIN Translated
         /\ Over(t) /\ co[t].gerr \in ErrorCode) =>
            IF co[t].gerr = Translated[co[t].call.fn].code
            THEN /\ Raised(t, Translated[co[t].call.fn].type)
                 /\ co[t].exc.ctx = ""
            ELSE Raised(t, "DeviceError") /\ co[t].exc.code = co[t].gerr

\* set_output was refused with OUTPUT_OUTSIDE_LIMITS
C27_Witness ==
    \E t \in Tasks :
        /\ co[t].call.fn = "set_output" /\ Raised(t, "ValueError")
        /\ co[t].gerr = OUTPUT_OUTSIDE_LIMITS

\* set_internal_sense was refused with the code of the guard
C27_WitnessOther ==
    \E t \in Tasks :
        /\ co[t].call.fn = "set_internal_sense" /\ Raised(t, "DeviceError")
        /\ co[t].gerr = INVALID_GUARD_MODE

\* set_internal_guard was refused with its code
C27_WitnessGuard ==
    \E t \in Tasks :
        /\ co[t].call.fn = "set_internal_guard" /\ Raised(t, "TypeError")
        /\ co[t].gerr = INVALID_GUARD_MODE

\* the call of t failed at once with the violated precondition: it did not
\* take the lock and made no transaction on the transport
FailsFast(t) ==
    /\ Raised(t, "AssertionError")
    /\ ~co[t].took
    /\ co[t].ntx = 0 /\ co[t].nwr = 0 /\ co[t].by = ""

\* C28: on a session on which connect() was never called (no lock was ever
\* created) every lock-taking operation fails at once with the violated
\* precondition and makes no transaction on the transport
C28_FailFastBeforeConnect ==
    \A t \in Tasks :
        (co[t].call \in LockOps /\ co[t].st # "idle" /\ lock = 0)
            => FailsFast(t)

\* acal() on a session that was never connected
C28_Witness ==
    \E t \in Tasks :
        /\ co[t].call.fn = "acal" /\ lock = 0 /\ co[t].calls = 1
        /\ FailsFast(t)

\* C29: after disconnect() the session is as it was constructed: a
\* lock-taking operation fails at once with the violated precondition, also
\* when connect() was called before the disconnect()
C29_FailFastAfterDisconnect ==
    \A t \in Tasks :
        (co[t].call \in LockOps /\ co[t].st # "idle" /\ co[t].calls > 2)
            => FailsFast(t)

\* the reply that the task read in its last step is the GDNG reply IDLE
ReadIdle(c) == c.after.cmd = "GDNG" /\ c.after.val = IDLE

\* C31: connect() hands STRM 2 to the transport in the very step in which a
\* GDNG reply of IDLE was read, and SSEP 0 and SSRQ 0 only after STRM 2; a
\* first GDNG reply that is another state makes it hand over SSRQ 4, and in
\* the wait that follows every GDNG reply that is not IDLE sends it to the
\* next wait for a service request
C31_ConfiguredWhenIdle ==
    \A t \in Tasks :
        co[t].call.fn = "connect" =>
            /\ (Awaits(t, "conn.write") /\ Cur(t).cmd = "STRM 2") =>
                  ReadIdle(co[t])
            /\ (Awaits(t, "conn.write") /\ Cur(t).cmd = "SSEP 0") =>
                  co[t].tail = 2
            /\ (Awaits(t, "conn.write") /\ Cur(t).cmd = "SSRQ 0") =>
                  co[t].tail = 3
            /\ (/\ co[t].after.cmd = "GDNG"
                /\ co[t].after.val \in DeviceState \ {IDLE}) =>
                  /\ GoesOn(co[t])
                  /\ co[t].tail = 0
                  /\ IF co[t].after.at = "connect"
                     THEN Cur(t).aw = "conn.write" /\ Cur(t).cmd = "SSRQ 4"
                     ELSE /\ co[t].after.at = "wait_for_idle"
                          /\ co[t].srq = DOING_STATE_CHANGE
                          /\ Cur(t).fn = "wait_for_rqs"
                          /\ Cur(t).aw = "conn.wait"

\* connect() hands STRM 2 over after it found the device busy and waited
C31_Witness ==
    \E t \in Tasks :
        /\ co[t].call.fn = "connect"
        /\ Awaits(t, "conn.write") /\ Cur(t).cmd = "STRM 2"
        /\ co[t].after = [cmd |-> "GDNG", val |-> IDLE, at |-> "wait_for_idle"]
        /\ co[t].srq = DOING_STATE_CHANGE
        /\ co[t].spoll # -1

\* C32: set_rs232_baud_rate with a rate of the table hands its commands over
\* while it holds the lock, SBDR first; it waits for a service request only
\* with the mask at 4; it hands over the SSRQ 0 of a normal exit in the very
\* step in which __wait_for_idle read a GDNG reply of IDLE; when it returns
\* normally SSRQ 0 is the last command it handed over; and however it ends
\* after a command was handed over, the last mask it wrote is 0
C32_BaudRateSkeleton ==
    \A t \in Tasks :
        (/\ Sets(t, "set_rs232_baud_rate")
         /\ co[t].call.v \in SeqRange(BAUD_RATES_AVAILABLE)) =>
            /\ Awaits(t, "conn.write") =>
                  co[t].took /\ holder[co[t].stack[1].lk] = t
            /\ co[t].first # "" =>
                  co[t].first =
                     "SBDR " \o FormatD(IndexOf(BAUD_RATES_AVAILABLE, co[t].call.v, 1))
            /\ Awaits(t, "conn.wait") => co[t].srq = DOING_STATE_CHANGE
            /\ (/\ Awaits(t, "conn.write") /\ Cur(t).cmd = "SSRQ 0"
                /\ co[t].stack[1].pend = NoExc) =>
                  /\ ReadIdle(co[t]) /\ co[t].after.at = "wait_for_idle"
                  /\ co[t].second = "SSRQ 4"
            /\ (Over(t) /\ co[t].exc = NoExc) =>
                  co[t].last = "SSRQ 0" /\ co[t].second = "SSRQ 4"
            /\ (Over(t) /\ co[t].first # "") => co[t].srq = SRQ_NONE

\* the rate was set after a wait for the NVRAM write
C32_Witness ==
    \E t \in Tasks :
        /\ Sets(t, "set_rs232_baud_rate") /\ Over(t) /\ co[t].exc = NoExc
        /\ co[t].last = "SSRQ 0" /\ co[t].spoll # -1
        /\ dev.baud = 11

\* C33: reset() clears the device while it holds the lock and before it
\* handed over any command; the first command after the clear, GDNG, is
\* handed over right after a serial poll with the state-changing bit clear,
\* and every later GDNG after the pause that follows a reply other than
\* IDLE; STRM 2 is handed over in the very step in which a GDNG reply of IDLE
\* was read, SSEP 0 and SSRQ 0 right after STRM 2 and SSEP 0, and these
\* three are the last commands of a reset() that returns normally
C33_ResetSequence ==
    \A t \in Tasks :
        co[t].call.fn = "reset" =>
            /\ Awaits(t, "conn.clear") =>
                  /\ co[t].took /\ holder[co[t].stack[1].lk] = t
                  /\ co[t].first = "" /\ co[t].by = "acquire"
            /\ Awaits(t, "conn.write") =>
                  /\ co[t].took /\ holder[co[t].stack[1].lk] = t
                  /\ co[t].first = "GDNG"
            /\ (Awaits(t, "conn.write") /\ Cur(t).cmd = "GDNG") =>
                  \/ /\ co[t].by = "serial_poll"
                     /\ ~HasFlag(co[t].spoll, DOING_STATE_CHANGE)
                     /\ co[t].nwr = 1 /\ co[t].second = ""
                  \/ co[t].by = "sleep" /\ co[t].second # ""
            /\ (/\ co[t].after.cmd = "GDNG"
                /\ co[t].after.val \in DeviceState \ {IDLE}) =>
                  GoesOn(co[t]) /\ Cur(t).aw = "sleep" /\ co[t].tail = 0
            /\ (Awaits(t, "conn.write") /\ Cur(t).cmd = "STRM 2") =>
                  ReadIdle(co[t])
            /\ (Awaits(t, "conn.write") /\ Cur(t).cmd = "SSEP 0") =>
                  co[t].tail = 2
            /\ (Awaits(t, "conn.write") /\ Cur(t).cmd = "SSRQ 0") =>
                  co[t].tail = 3
            /\ (Over(t) /\ co[t].exc = NoExc) => co[t].tail = Len(Epilogue)

\* reset() returned normally on a device that took a while to reset
C33_Witness ==
    \E t \in Tasks :
        /\ co[t].call.fn = "reset" /\ Over(t) /\ co[t].exc = NoExc
        /\ co[t].tail = Len(Epilogue)
        /\ co[t].second = "GDNG"

\* C34: the two commands of get_calibration_constants (GCAL 0 to GCAL 9 and
\* GCAL 10 to GCAL 19, joined with commas) are at most 127 bytes long and
\* pass the size check of write: the call never fails with the size error,
\* hands both to the transport and does so within one hold of the lock (it
\* acquires the lock before its first command and releases it after its
\* last); the one command for all twenty constants is longer than 127 bytes
\* and a query of it fails with the size error before anything is written
C34_ConstantsInTwoQueries ==
    /\ Len(GcalCommand(0, 9)) <= BufferLimit
    /\ Len(GcalCommand(10, 19)) <= BufferLimit
    /\ Len(GcalCommand(0, 19)) > BufferLimit
    /\ \A t \in Tasks :
          co[t].call.fn = "get_calibration_constants" =>
              /\ ~(co[t].exc.type = "ValueError" /\ co[t].exc.msg = "size")
              /\ co[t].first \in {"", GcalCommand(0, 9)}
              /\ Awaits(t, "acquire") => co[t].nwr = 0 /\ ~co[t].took
              /\ (\E aw \in {"conn.write", "conn.read", "serial_poll"} :
                      Awaits(t, aw))
                    => co[t].took /\ holder[co[t].stack[1].lk] = t
              /\ (Awaits(t, "release") /\ Cur(t).pend = NoExc)
                    => co[t].second = GcalCommand(10, 19)
              /\ (Over(t) /\ co[t].exc = NoExc)
                    => /\ co[t].first = GcalCommand(0, 9)
                       /\ co[t].second = GcalCommand(10, 19)
    /\ \A t \in Tasks :
          (co[t].call = AllConstants /\ co[t].st # "idle")
          => /\ Raised(t, "ValueError") /\ co[t].exc.msg = "size"
             /\ co[t].nwr = 0 /\ co[t].ntx = 0

\* both commands were handed to the transport and the call returned
C34_Witness ==
    \E t \in Tasks :
        /\ co[t].call.fn = "get_calibration_constants"
        /\ Over(t) /\ co[t].exc = NoExc
        /\ Len(co[t].first) = 69 /\ Len(co[t].second) = 79

\* the query of all twenty, 149 bytes long, was rejected
C34_WitnessWhole ==
    \E t \in Tasks :
        /\ co[t].call = AllConstants /\ Len(co[t].call.cmd) = 149
        /\ Raised(t, "ValueError") /\ co[t].exc.msg = "size"

\* the digits of a number text: its characters other than sign and point
DigitsOf(text) == {i \in DOMAIN text : text[i] \notin {"-", "."}}
\* the value that a call of a numeric setter is writing: value2 first
Writing(c) ==
    IF c.call.fn = "set_output" THEN c.call.v
    ELSE IF c.stack[1].pc = "value2" THEN c.call.v[2] ELSE c.call.v[1]
Verb(fn) ==
    CASE fn = "set_output" -> "SOUT "
      [] fn = "set_voltage_limit" -> "SVLM "
      [] fn = "set_current_limit" -> "SCLM "

\* C35: the number that set_output, set_voltage_limit and set_current_limit
\* put in their command is the 8-decimal rendering of the value; for a
\* magnitude of at least 1 it is the first 9 characters of that rendering,
\* and these are the decimal point and 8 significant digits, for positive
\* and negative values alike; for a magnitude below 1 it is the whole
\* rendering
C35_WireFormat ==
    \A t \in Tasks :
        (/\ co[t].call.fn \in {"set_output", "set_voltage_limit", "set_current_limit"}
         /\ Running(t) /\ Len(co[t].stack) >= 2 /\ co[t].stack[2].fn = "write")
        => LET x == Writing(co[t])
               text == IF x.int >= 1 THEN Precision9(FixedPoint(x))
                       ELSE FixedPoint(x)
           IN /\ co[t].stack[2].cmd = Verb(co[t].call.fn) \o Join(text)
              /\ x.int >= 1 =>
                    /\ Len(text) = 9
                    /\ \E i \in DOMAIN text : text[i] = "."
                    /\ Cardinality(DigitsOf(text)) = 8

\* the locks that task t holds
Held(t) == {l \in Locks : holder[l] = t}

\* C36: a task that is in no call holds no lock, whether its call returned,
\* raised or was cancelled; a task holds a lock only inside the async with
\* block of one frame of its stack, and no frame above that one takes a lock;
\* a task that waits for a lock never holds that lock itself, the task that
\* holds it is inside its locked section, and when no other task is in a
\* call the lock is free, which is all that Acquire of the waiting task
\* needs
C36_LockAlwaysReleased ==
    \A t \in Tasks :
        /\ ~Running(t) => Held(t) = {}
        /\ Running(t) =>
              /\ Cardinality({i \in DOMAIN co[t].stack : co[t].stack[i].lk # 0}) <= 1
              /\ Held(t) = {co[t].stack[i].lk : i \in Locked(co[t])}
        /\ Awaits(t, "acquire") =>
              /\ holder[Cur(t).lk] # t
              /\ \A u \in Tasks :
                    holder[Cur(t).lk] = u =>
                        /\ Running(u)
                        /\ \E i \in Locked(co[u]) : co[u].stack[i].lk = Cur(t).lk
              /\ (\A u \in Tasks \ {t} : ~Running(u)) => holder[Cur(t).lk] = NoTask

\* a task acquired the lock that the other task had taken and left by
\* cancellation
C36_Witness ==
    \E t, u \in Tasks :
        /\ t # u
        /\ Running(t) /\ co[t].took /\ co[t].by = "acquire"
        /\ co[u].took /\ Raised(u, "CancelledError")
        /\ co[u].call.fn # "connect"

\* a task waits for the lock that the other task holds inside reset
C36_WitnessWaits ==
    \E t, u \in Tasks :
        /\ Awaits(t, "acquire") /\ holder[Cur(t).lk] = u
        /\ co[u].call.fn = "reset" /\ Awaits(u, "conn.clear")

\* C37: a connect() that was called while another task was inside the locked
\* section of an operation waits for the lock which that task holds, and as
\* long as that task holds it connect has made no serial poll and handed no
\* command to the transport
C37_ConnectWaitsForRunning ==
    \A t \in Tasks :
        (co[t].call.fn = "connect" /\ Running(t) /\ co[t].amid # 0)
        => /\ co[t].stack[1].lk \in {0, co[t].amid}
           /\ holder[co[t].amid] \notin {NoTask, t} =>
                 /\ ~co[t].took
                 /\ co[t].ntx = 0 /\ co[t].nwr = 0

\* the step in which selftest_all of task t releases the lock after a
\* self-test and goes on to the next one
HandsOver(t) ==
    /\ co[t].call.fn = "selftest_all" /\ Awaits(t, "release")
    /\ co'[t] # co[t] /\ co'[t].st = "run"

\* C38: selftest_all holds no lock between two of its self-tests: the step
\* that releases the lock after a self-test leaves selftest_all waiting for
\* the lock again, with the lock free and the SRQ mask of the device NONE; a
\* task that started to wait for the lock during self-test k is inside its
\* locked section only while selftest_all waits between self-test k and the
\* next one, and it has left that section by the time selftest_all is
\* inside a later self-test
C38_LockFreeBetweenPhases ==
    /\ [][\A t \in Tasks :
            HandsOver(t) =>
                /\ Top(co'[t].stack).aw = "acquire"
                /\ holder'[Top(co'[t].stack).lk] = NoTask
                /\ \A l \in Locks : holder'[l] # t
                /\ co'[t].npass \in {1, 2}
                /\ dev'.mask = SRQ_NONE /\ co'[t].srq = SRQ_NONE]_vars
    /\ [](\A t \in Tasks :
            co[t].call.fn = "selftest_all" =>
                /\ Awaits(t, "acquire") => Held(t) = {}
                /\ \A u \in Tasks \ {t} :
                      co[u].queued >= 0 =>
                          /\ (Running(t) /\ Locked(co[u]) # {}) =>
                                /\ Awaits(t, "acquire")
                                /\ co[t].npass = co[u].queued + 1
                          /\ (/\ Running(t) /\ Locked(co[t]) # {}
                              /\ co[t].npass > co[u].queued) =>
                                Over(u) /\ co[u].took)

\* acal, which started to wait during the digital self-test, has run and
\* returned, and selftest_all is inside its analog self-test
C38_Witness ==
    \E t, u \in Tasks :
        /\ co[t].call.fn = "selftest_all" /\ Running(t)
        /\ co[t].npass = 1 /\ Locked(co[t]) # {}
        /\ co[u].call.fn = "acal" /\ co[u].queued = 0
        /\ Over(u) /\ co[u].exc = NoExc

\* get_calibration_constants, which started to wait during the analog
\* self-test, is inside its locked section
C38_WitnessBetween ==
    \E t, u \in Tasks :
        /\ co[t].call.fn = "selftest_all" /\ Awaits(t, "acquire")
        /\ co[u].call.fn = "get_calibration_constants" /\ co[u].queued = 1
        /\ Awaits(u, "conn.read")

\* the limit of the device that a limit command for x sets
LimitOf(fn, x) ==
    IF fn = "set_voltage_limit" THEN (IF x.neg THEN dev.vneg ELSE dev.vpos)
    ELSE (IF x.neg THEN dev.cneg ELSE dev.cpos)
\* the command of setter fn for x
LimitCommand(fn, x) == Verb(fn) \o Join(limit_numeric(x))
\* a call of t that sets two limits and passed the validation
SetsTwo(t) ==
    /\ co[t].call.fn \in {"set_voltage_limit", "set_current_limit"}
    /\ co[t].st # "idle"
    /\ co[t].call.v[2] # NoValue /\ co[t].first # ""

\* C39: set_voltage_limit(value, value2) and set_current_limit(value,
\* value2) hand the command for value2 to the transport first; the command
\* for value is handed over in the step that completed the serial poll of
\* the first write, and only when that poll had no error-condition bit; when
\* the device refused the first write (GERR is the second command) the
\* command for value is never handed over and the call fails; when the call
\* fails after the command for value was handed over, the device still has
\* the limit that the first write set
C39_Value2ThenValue ==
    \A t \in Tasks :
        SetsTwo(t) =>
            LET fn == co[t].call.fn
                value == co[t].call.v[1]
                value2 == co[t].call.v[2]
            IN /\ co[t].first = LimitCommand(fn, value2)
               /\ co[t].second \in {"", "GERR", LimitCommand(fn, value)}
               /\ (Awaits(t, "conn.write") /\ Cur(t).cmd = LimitCommand(fn, value)) =>
                     /\ co[t].second = LimitCommand(fn, value)
                     /\ co[t].by = "serial_poll"
                     /\ ~HasFlag(co[t].spoll, ERROR_CONDITION)
                     /\ co[t].ngerr = 0
                     /\ LimitOf(fn, value2) = Decimal(limit_numeric(value2))
               /\ co[t].second = "GERR" =>
                     /\ Awaits(t, "conn.write") => Cur(t).cmd = "GERR"
                     /\ Over(t) => co[t].exc # NoExc
               /\ (Over(t) /\ co[t].second = LimitCommand(fn, value)) =>
                     LimitOf(fn, value2) = Decimal(limit_numeric(value2))

\* set_voltage_limit(-10, 10) failed on its second write: the positive limit
\* is the new one and the negative limit the one of the device as it was
C39_Witness ==
    \E t \in Tasks :
        /\ SetsTwo(t) /\ co[t].call.fn = "set_voltage_limit"
        /\ co[t].second = "SVLM -10.00000"
        /\ Raised(t, "ValueError")
        /\ dev.vpos = Whole(10) /\ dev.vneg = Whole(-1500)

\* the device refused the first write and the call failed with one command
\* written
C39_WitnessFirst ==
    \E t \in Tasks :
        /\ SetsTwo(t) /\ co[t].second = "GERR" /\ Raised(t, "ValueError")
        /\ dev.vpos = Whole(1500)

\* the call of t is a self-test that is over, in which SelftestError with the
\* decoding of 152 was raised, and in which neither the transport failed nor
\* a cancellation struck
HandshakeFound(t) ==
    /\ co[t].call.fn \in SelfTests /\ Over(t)
    /\ co[t].exc.type \notin Outside /\ co[t].exc.ctx \notin Outside
    /\ \/ /\ co[t].exc.type = "SelftestError"
          /\ co[t].exc.code = GPIB_HANDSHAKE_ERROR
       \/ /\ co[t].exc.ctx = "SelftestError"
          /\ co[t].exc.ctxcode = GPIB_HANDSHAKE_ERROR

\* C40 as claimed: such a self-test ends with that SelftestError
C40_EndsWithSelftestError ==
    \A t \in Tasks :
        HandshakeFound(t) =>
            /\ Raised(t, "SelftestError")
            /\ co[t].exc.code = GPIB_HANDSHAKE_ERROR

\* C40: when a self-test loop, after the trigger, has read 152 as the GERR
\* reply that follows a poll with the error bit, SelftestError with the
\* self-test decoding of 152 is raised in that step and the self-test does
\* not go on; it ends with that exception, or with the exception of a failed
\* clean-up that has it as context. When the wait-for-service step itself
\* has read 152 (wait_for_idle, also the one a self-test runs before its
\* trigger, and the acal loop) nothing is raised and the operation goes on
C40_HandshakeEndsSelftest ==
    \A t \in Tasks :
        LET a == co[t].after IN
        /\ (a.cmd = "GERR" /\ a.at \in SelfTests /\ a.val = GPIB_HANDSHAKE_ERROR) =>
              /\ co[t].trig # <<>>
              /\ GPIB_HANDSHAKE_ERROR \in SelfTestErrorCode
              /\ Raising(co[t], "SelftestError", GPIB_HANDSHAKE_ERROR)
              /\ ~GoesOn(co[t])
        /\ (a.cmd = "GERR" /\ a.at = "wait_for_rqs" /\ a.val = GPIB_HANDSHAKE_ERROR) =>
              /\ GoesOn(co[t])
              /\ co[t].call.fn \in SelfTests => co[t].trig = <<>>
        /\ HandshakeFound(t) =>
              \/ Raised(t, "SelftestError") /\ co[t].exc.ctx = ""
              \/ /\ co[t].exc.type \in {"DeviceError", "ValueError"}
                 /\ co[t].exc.ctx = "SelftestError"
                 /\ co[t].srq = SRQ_NONE

\* a self-test ended with SelftestError carrying 152
C40_Witness ==
    \E t \in Tasks :
        /\ HandshakeFound(t) /\ Raised(t, "SelftestError")
        /\ co[t].call.fn = "selftest_analog" /\ co[t].trig = <<"TSTA">>

\* the wait_for_idle of a self-test read 152 before the trigger and the
\* self-test goes on
C40_WitnessLogged ==
    \E t \in Tasks :
        /\ co[t].after = [cmd |-> "GERR", val |-> GPIB_HANDSHAKE_ERROR,
                          at |-> "wait_for_rqs"]
        /\ co[t].call.fn \in SelfTests /\ GoesOn(co[t])

====
